---- MODULE Spec2Model ----
(***************************************************************************)
(* A model of the evaai backend's natural-language action dispatch:        *)
(* the Mongoose document stores of tasks, events and invoices, the three   *)
(* action handlers behind handleActionRequest, the accounting (Xero)       *)
(* connection, and the chat turn (sendMessage / generateAIResponse).       *)
(*                                                                         *)
(* Conventions.                                                            *)
(*  - A document is a function from its schema paths to values.  A path    *)
(*    the schema does not declare cannot be stored: Mongoose's strict      *)
(*    mode drops it on create and on findOneAndUpdate.                     *)
(*  - An optional value is None (undefined / null) or Some(v).             *)
(*  - A string that the code inspects (a title, an identifier) is a tuple  *)
(*    of one-character strings, so that matching is computed.              *)
(*  - A Date is an integer number of hours; `now` is the clock.             *)
(*  - createdAt is the creation stamp (strictly increasing, millisecond    *)
(*    resolution in the code): the allocation counter.                     *)
(***************************************************************************)
EXTENDS Integers, Sequences, FiniteSets, TLC

VARIABLES
    now,            \* the clock (new Date())
    nextId,         \* how many documents have been created (ObjectId allocation)
    tasks,          \* the Task collection
    events,         \* the Event collection
    invoices,       \* the Invoice collection
    tenantId,       \* xeroController.js: let tenantId
    isAuthenticated,\* xeroController.js: let isAuthenticated
    lastCall,       \* the last handleActionRequest call: user, action, params
    lastEnv,        \* the envelope that call returned
    conversations,  \* the Conversation collection
    messages,       \* the Message collection, in creation order
    req             \* the sendMessage requests in flight

vars == <<now, nextId, tasks, events, invoices, tenantId, isAuthenticated,
          lastCall, lastEnv, conversations, messages, req>>

dbVars == <<nextId, tasks, events, invoices>>
xeroVars == <<tenantId, isAuthenticated>>
chatVars == <<conversations, messages, req>>

-----------------------------------------------------------------------------
(* Bounds *)

MaxRecords == 2
MaxTime == 2
MaxRequests == 2

-----------------------------------------------------------------------------
(* Values *)

None == <<>>
Some(v) == <<v>>
IsSome(o) == o /= None
Val(o) == o[1]
Opt(S) == {None} \cup {Some(v) : v \in S}

\* A parameter given as null (not undefined)
JsNull == <<<<"null", 0>>>>

\* JavaScript truthiness of a parameter: neither undefined nor null
Truthy(o) == o /= None /\ o /= JsNull

Users == {"u1", "u2"}

\* An ObjectId string.  ObjId(n) is the id of the n-th document created.
ObjId(n) == <<"#", ToString(n)>>

\* mongoose.Types.ObjectId.isValid(identifier)
IsValidObjectId(identifier) == Len(identifier) = 2 /\ identifier[1] = "#"

\* Every well-formed id a caller may name: those allocated so far or later,
\* and one that no document will ever carry.
ObjectIds == {ObjId(n) : n \in 1..(MaxRecords + 1)}

LowerChar(c) ==
    CASE c = "A" -> "a"
      [] c = "B" -> "b"
      [] OTHER -> c

\* String.prototype.toLowerCase, and the 'i' flag of a RegExp
Lower(s) == [i \in 1..Len(s) |-> LowerChar(s[i])]

RECURSIVE Trim(_)
\* String.prototype.trim, and the schema option trim: true
Trim(s) ==
    IF s = <<>> THEN s
    ELSE IF s[1] = " " THEN Trim(Tail(s))
    ELSE IF s[Len(s)] = " " THEN Trim(SubSeq(s, 1, Len(s) - 1))
    ELSE s

\* new RegExp(`^${identifier}$`, 'i') against a title
MatchesExactly(title, identifier) == Lower(title) = Lower(identifier)

\* new RegExp(identifier, 'i') against a title or a client name
MatchesPartially(text, identifier) ==
    \E i \in 1..(Len(text) - Len(identifier) + 1) :
        Lower(SubSeq(text, i, i + Len(identifier) - 1)) = Lower(identifier)

\* The document of a set with the latest creation stamp: sort({createdAt: -1})[0]
MostRecent(S) == CHOOSE d \in S : \A e \in S : e.createdAt <= d.createdAt

\* The first document in natural (insertion) order: findOne without a sort
NaturalFirst(S) == CHOOSE d \in S : \A e \in S : d.createdAt <= e.createdAt

\* A path that is undefined in a params object reads as None
Param(params, field) == IF field \in DOMAIN params THEN params[field] ELSE None

\* Mongoose strict mode: only the schema's paths of an update are applied
StrictCast(paths, update) == [p \in (DOMAIN update) \cap paths |-> update[p]]

\* The document after findOneAndUpdate(..., update, {new: true})
ApplyUpdate(paths, doc, update) ==
    LET u == StrictCast(paths, update)
    IN  [p \in DOMAIN doc \cup DOMAIN u |-> IF p \in DOMAIN u THEN u[p] ELSE doc[p]]

-----------------------------------------------------------------------------
(* Envelopes *)

\* { success: true, data: result }
OkEnvelope(data) ==
    [success |-> TRUE, data |-> data, error |-> "", missingFields |-> {},
     emailStatus |-> None, xeroInvoice |-> None, tasks |-> None, meta |-> None]

\* { success: false, error }
ErrorEnvelope(message) ==
    [success |-> FALSE, data |-> None, error |-> message, missingFields |-> {},
     emailStatus |-> None, xeroInvoice |-> None, tasks |-> None, meta |-> None]

\* { success: false, missingFields, error: `Missing required fields: ...` }
MissingEnvelope(missing) ==
    [success |-> FALSE, data |-> None, error |-> "Missing required fields",
     missingFields |-> missing, emailStatus |-> None, xeroInvoice |-> None,
     tasks |-> None, meta |-> None]

\* Collaborators that do not fail: the accounting API and the mailer
NoExt == [xeroThrows |-> FALSE, emailThrows |-> FALSE]

\* The collections a handler reads and writes
Db == [tasks |-> tasks, events |-> events, invoices |-> invoices, nextId |-> nextId]

\* What a handler returns: the collections after it, and its envelope
Outcome(db, env) == [db |-> db, env |-> env]

\* taskActions.js validateParams: the required fields that are undefined, null
\* or a blank string
MissingFields(required, params) ==
    {f \in required :
        LET p == Param(params, f)
        IN  p = None \/ p = JsNull \/ Trim(Val(p)) = <<>>}

-----------------------------------------------------------------------------
(* Dates a caller may write *)

DateIso(t) == <<"iso", t>>
DateWord(w) == <<"word", w>>
DateJunk == <<"junk", 0>>

DateWords == {"today", "tomorrow", "yesterday", "next week", "next month"}

\* addDays(new Date(), n) for the literals of parseDateInput
WordOffset(w) ==
    CASE w = "today" -> 0
      [] w = "tomorrow" -> 24
      [] w = "yesterday" -> -24
      [] w = "next week" -> 7 * 24
      [] w = "next month" -> 30 * 24

\* invoiceActions.js parseDateInput(input, defaultDate): null for no input, the
\* date when new Date(input) is valid, the literal's date, else the default
parseDateInput(input, defaultDate, clock) ==
    IF input = None THEN None
    ELSE LET v == Val(input)
         IN  CASE v[1] = "iso" -> Some(v[2])
               [] v[1] = "word" -> Some(clock + WordOffset(v[2]))
               [] OTHER -> Some(defaultDate)

-----------------------------------------------------------------------------
(* Tasks: models/Task.js and the task handler *)

TaskStatuses == {"Not Started", "In Progress", "Completed", "On Hold"}

\* The paths of taskSchema that the handler's mutations touch
TaskPaths == {"_id", "user", "title", "completed", "completedAt", "dueDate",
              "status", "createdAt"}

\* taskSchema's validators, as run by create and by runValidators: true
TaskValid(update) ==
    ("status" \in DOMAIN update) => (update.status \in TaskStatuses)

\* A lookup of tasks that leaves the account out of the query
findTaskOfAnyUser(db, userId, identifier) ==
    IF ~Truthy(identifier) \/ identifier = Some(<<>>) THEN None
    ELSE IF IsValidObjectId(Val(identifier))
    THEN LET found == {t \in db.tasks : t._id = Val(identifier)}
         IN  IF found = {} THEN None ELSE Some(NaturalFirst(found))
    ELSE LET found == {t \in db.tasks : MatchesExactly(t.title, Val(identifier))}
         IN  IF found = {} THEN None ELSE Some(NaturalFirst(found))

\* findTask(userId, identifier)
findTask(db, userId, identifier) ==
    IF ~Truthy(identifier) \/ identifier = Some(<<>>) THEN None
    ELSE IF IsValidObjectId(Val(identifier))
    THEN LET found == {t \in db.tasks : t._id = Val(identifier) /\ t.user = userId}
         IN  IF found = {} THEN None ELSE Some(NaturalFirst(found))
    ELSE LET found == {t \in db.tasks :
                          MatchesExactly(t.title, Val(identifier)) /\ t.user = userId}
         IN  IF found = {} THEN None ELSE Some(NaturalFirst(found))

TaskRequiredFields(action) ==
    CASE action = "create_task" -> {"title"}
      [] action \in {"update_task", "complete_task", "uncomplete_task",
                     "reopen_task"} -> {"taskId"}
      [] OTHER -> {}

TaskNotFound == ErrorEnvelope("Task not found or you don't have permission to update it")

\* Task.findOneAndUpdate({_id: task._id}, update, {new: true, runValidators})
TaskFindOneAndUpdate(db, task, update, runValidators) ==
    IF runValidators /\ ~TaskValid(StrictCast(TaskPaths, update))
    THEN Outcome(db, ErrorEnvelope("Validation failed"))
    ELSE LET updated == ApplyUpdate(TaskPaths, task, update)
         IN  Outcome([db EXCEPT !.tasks = (db.tasks \ {task}) \cup {updated}],
                     OkEnvelope(Some(updated)))

\* A create_task that stores whatever due date it is given
CreateTaskUnchecked(db, clock, userId, params) ==
    LET doc == [_id |-> ObjId(db.nextId + 1), user |-> userId,
                title |-> Val(params.title), completed |-> FALSE,
                completedAt |-> None,
                dueDate |-> parseDateInput(Param(params, "dueDate"), clock + 7 * 24, clock),
                status |-> "Not Started", createdAt |-> db.nextId + 1]
    IN  Outcome([db EXCEPT !.tasks = @ \cup {doc}, !.nextId = @ + 1],
                OkEnvelope(Some(doc)))

\* case 'create_task'
CreateTask(db, clock, userId, params) ==
    LET dueDate == parseDateInput(Param(params, "dueDate"), clock + 7 * 24, clock)
        status == IF Param(params, "status") = None THEN "Not Started"
                  ELSE Val(params.status)
        doc == [_id |-> ObjId(db.nextId + 1), user |-> userId,
                title |-> Val(params.title), completed |-> FALSE,
                completedAt |-> None, dueDate |-> dueDate, status |-> status,
                createdAt |-> db.nextId + 1]
    IN  IF IsSome(dueDate) /\ Val(dueDate) < clock /\ Param(params, "allowPastDue") /= Some(TRUE)
        THEN Outcome(db, ErrorEnvelope("Due date cannot be in the past"))
        ELSE IF ~TaskValid(doc)
        THEN Outcome(db, ErrorEnvelope("Validation failed"))
        ELSE Outcome([db EXCEPT !.tasks = @ \cup {doc}, !.nextId = @ + 1],
                     OkEnvelope(Some(doc)))

\* The updateFields object of case 'update_task'
TaskUpdateFields(clock, params) ==
    LET has(f) == Param(params, f) /= None
        keys == {f \in {"title", "dueDate", "status"} : has(f)}
                  \cup (IF has("completed") THEN {"completed", "completedAt"} ELSE {})
    IN  [f \in keys |->
            CASE f = "title" -> Val(params.title)
              [] f = "completed" -> Val(params.completed)
              [] f = "completedAt" -> IF Val(params.completed) THEN Some(clock) ELSE None
              [] f = "dueDate" -> parseDateInput(params.dueDate, clock, clock)
              [] f = "status" -> Val(params.status)]

\* case 'update_task'
UpdateTask(db, clock, userId, params) ==
    LET task == findTask(db, userId, Param(params, "taskId"))
    IN  IF task = None THEN Outcome(db, TaskNotFound)
        ELSE TaskFindOneAndUpdate(db, Val(task), TaskUpdateFields(clock, params), TRUE)

\* case 'complete_task'
CompleteTask(db, clock, userId, params) ==
    LET task == findTask(db, userId, Param(params, "taskId"))
    IN  IF task = None THEN Outcome(db, TaskNotFound)
        ELSE TaskFindOneAndUpdate(db, Val(task),
                 [completed |-> TRUE, completedAt |-> Some(clock),
                  status |-> "Completed"], FALSE)

\* case 'uncomplete_task': case 'reopen_task'
ReopenTask(db, clock, userId, params) ==
    LET task == findTask(db, userId, Param(params, "taskId"))
    IN  IF task = None THEN Outcome(db, TaskNotFound)
        ELSE TaskFindOneAndUpdate(db, Val(task),
                 [completed |-> FALSE, completedAt |-> None,
                  status |-> IF Param(params, "status") = None THEN "In Progress"
                             ELSE Val(params.status)], FALSE)

RECURSIVE SortByDueDate(_)
\* .sort({ dueDate: 1 }): a missing due date sorts first; tasks with equal
\* due dates come in the order they were stored
SortByDueDate(S) ==
    IF S = {} THEN <<>>
    ELSE LET key(t) == IF t.dueDate = None THEN -1 ELSE Val(t.dueDate)
             first == CHOOSE t \in S : \A k \in S :
                          \/ key(t) < key(k)
                          \/ (key(t) = key(k) /\ t.createdAt <= k.createdAt)
         IN  <<first>> \o SortByDueDate(S \ {first})

\* parseInt(params.limit) || 100 and parseInt(params.skip) || 0
PageNumber(p, default) == IF p = None \/ Val(p) = 0 THEN default ELSE Val(p)

\* case 'fetch_tasks': the query on user, status and completed, sorted,
\* skipped and limited; it returns { success: true, response, tasks, type,
\* meta: { total, returned, limit, skip } }, which has no data, and writes
\* nothing
FetchTasks(db, userId, params) ==
    LET matching == {t \in db.tasks :
                        /\ t.user = userId
                        /\ (Param(params, "status") /= None => t.status = Val(params.status))
                        /\ (Param(params, "completed") /= None =>
                               t.completed = Val(params.completed))}
        limit == PageNumber(Param(params, "limit"), 100)
        skip == PageNumber(Param(params, "skip"), 0)
        sorted == SortByDueDate(matching)
        result == SubSeq(sorted, skip + 1,
                         IF skip + limit < Len(sorted) THEN skip + limit ELSE Len(sorted))
    IN  Outcome(db, [OkEnvelope(None) EXCEPT
                        !.tasks = Some(result),
                        !.meta = Some([total |-> Cardinality(matching),
                                       returned |-> Len(result),
                                       limit |-> limit, skip |-> skip])])

\* exports.handleTaskAction
handleTaskAction(db, clock, userId, action, params) ==
    LET missing == MissingFields(TaskRequiredFields(action), params)
    IN  IF missing /= {} THEN Outcome(db, MissingEnvelope(missing))
        ELSE CASE action = "create_task" -> CreateTask(db, clock, userId, params)
               [] action = "update_task" -> UpdateTask(db, clock, userId, params)
               [] action = "complete_task" -> CompleteTask(db, clock, userId, params)
               [] action \in {"uncomplete_task", "reopen_task"} ->
                      ReopenTask(db, clock, userId, params)
               [] action = "fetch_tasks" -> FetchTasks(db, userId, params)
               [] OTHER -> Outcome(db, OkEnvelope(None))

-----------------------------------------------------------------------------
(* Events: models/Event.js and services/actionHandlers/eventActions.js *)

\* The paths of eventSchema (location, which no mutation here reads, left out).
\* The schema declares neither `description` nor `cancelled`.
EventPaths == {"_id", "user", "title", "startTime", "endTime", "createdAt"}

\* eventSchema.endTime's validator, on a document (create): `this` is the
\* document
EventDocValid(doc) ==
    doc.endTime = None \/ Val(doc.endTime) > Val(doc.startTime)

\* The same validator as an update validator (runValidators: true): it runs
\* only when the update sets endTime to a value, and `this` is then not the
\* document, so this.startTime is undefined and `value > undefined` is false
EventUpdateValid(update) ==
    ~("endTime" \in DOMAIN update /\ update.endTime /= None)

\* findEvent without `user: userId` in its queries
findEventOfAnyUser(db, userId, identifier) ==
    IF ~Truthy(identifier) THEN None
    ELSE IF IsValidObjectId(Val(identifier))
    THEN LET found == {e \in db.events : e._id = Val(identifier)}
         IN  IF found = {} THEN None ELSE Some(NaturalFirst(found))
    ELSE LET found == {e \in db.events : MatchesPartially(e.title, Val(identifier))}
         IN  IF found = {} THEN None ELSE Some(NaturalFirst(found))

\* A lookup of events that goes on to the title when no event has the id
findEventByIdThenTitle(db, userId, identifier) ==
    IF ~Truthy(identifier) THEN None
    ELSE LET own == {e \in db.events : e.user = userId}
             byId == {e \in own : e._id = Val(identifier)}
             byTitle == {e \in own : MatchesPartially(e.title, Val(identifier))}
         IN  IF byId /= {} THEN Some(NaturalFirst(byId))
             ELSE IF byTitle /= {} THEN Some(NaturalFirst(byTitle))
             ELSE None

\* findEvent(userId, identifier)
findEvent(db, userId, identifier) ==
    IF ~Truthy(identifier) THEN None
    ELSE IF IsValidObjectId(Val(identifier))
    THEN LET found == {e \in db.events : e._id = Val(identifier) /\ e.user = userId}
         IN  IF found = {} THEN None ELSE Some(NaturalFirst(found))
    ELSE LET found == {e \in db.events :
                          MatchesPartially(e.title, Val(identifier)) /\ e.user = userId}
         IN  IF found = {} THEN None ELSE Some(NaturalFirst(found))

\* A text with 'pm' in it: the hour written before it, -1 when there is none
DatePm(hour) == <<"pm", hour>>

\* new Date(NaN), an Invalid Date
InvalidDate == <<-1>>

\* eventActions.js parseDateTime(input, defaultDate): null for no input, the
\* date when new Date(input) is valid, the hour after noon on the day of
\* defaultDate for a text with 'pm' (an Invalid Date when parseInt finds no
\* hour), else "current date + 1 hour"
parseDateTime(input, defaultDate, clock) ==
    IF ~Truthy(input) THEN None
    ELSE LET v == Val(input)
         IN  CASE v[1] = "iso" -> Some(v[2])
               [] v[1] = "pm" ->
                      IF v[2] < 0 THEN InvalidDate
                      ELSE Some((defaultDate \div 24) * 24 + v[2] + 12)
               [] OTHER -> Some(clock + 1)

\* date-fns isValid(date)
isValid(date) == date /= None /\ date /= InvalidDate

EventRequiredFields(action) ==
    CASE action = "create_event" -> {"title", "startTime"}
      [] action \in {"update_event", "cancel_event", "delete_event"} -> {"eventId"}
      [] OTHER -> {}

\* eventActions.js validateParams: the required fields that are falsy
MissingFalsy(required, params) ==
    {f \in required : ~Truthy(Param(params, f)) \/ Param(params, f) = Some(<<>>)}

EventNotFound(verb) ==
    ErrorEnvelope(IF verb = "delete it"
                  THEN "Event not found or you don't have permission to delete it"
                  ELSE "Event not found or you don't have permission to update it")

\* case 'create_event'
CreateEvent(db, clock, userId, params) ==
    LET startTime == parseDateTime(Param(params, "startTime"), clock, clock)
        endTime == IF isValid(startTime)
                   THEN parseDateTime(Param(params, "endTime"), Val(startTime), clock)
                   ELSE None
        doc == [_id |-> ObjId(db.nextId + 1), user |-> userId,
                title |-> Val(params.title), startTime |-> startTime,
                endTime |-> endTime, createdAt |-> db.nextId + 1]
    IN  IF ~isValid(startTime)
        THEN Outcome(db, ErrorEnvelope("Invalid start time format"))
        ELSE IF endTime = InvalidDate
        THEN Outcome(db, ErrorEnvelope("Invalid end time format"))
        ELSE IF IsSome(endTime) /\ Val(endTime) <= Val(startTime)
        THEN Outcome(db, ErrorEnvelope("End time must be after start time"))
        ELSE IF ~EventDocValid(doc)
        THEN Outcome(db, ErrorEnvelope("Validation failed"))
        ELSE Outcome([db EXCEPT !.events = @ \cup {doc}, !.nextId = @ + 1],
                     OkEnvelope(Some(doc)))

\* The updateFields object of case 'update_event'
EventUpdateFields(clock, params, event) ==
    LET keys == {f \in {"title", "startTime"} : Truthy(Param(params, f))}
                  \cup (IF Param(params, "endTime") /= None THEN {"endTime"} ELSE {})
        startTime == parseDateTime(Param(params, "startTime"), clock, clock)
    IN  [f \in keys |->
            CASE f = "title" -> Val(params.title)
              [] f = "startTime" -> startTime
              [] f = "endTime" ->
                     parseDateTime(params.endTime,
                                   IF isValid(startTime) THEN Val(startTime)
                                   ELSE Val(event.startTime), clock)]

\* case 'update_event'
UpdateEvent(db, clock, userId, params) ==
    LET event == findEvent(db, userId, Param(params, "eventId"))
        update == StrictCast(EventPaths, EventUpdateFields(clock, params, Val(event)))
    IN  IF event = None THEN Outcome(db, EventNotFound("update it"))
        ELSE IF "startTime" \in DOMAIN update /\ ~isValid(update.startTime)
        THEN Outcome(db, ErrorEnvelope("Invalid start time format"))
        ELSE IF "endTime" \in DOMAIN update /\ update.endTime = InvalidDate
        THEN Outcome(db, ErrorEnvelope("Invalid end time format"))
        ELSE IF ~EventUpdateValid(update)
        THEN Outcome(db, ErrorEnvelope("Validation failed"))
        ELSE LET updated == ApplyUpdate(EventPaths, Val(event), update)
             IN  Outcome([db EXCEPT !.events = (@ \ {Val(event)}) \cup {updated}],
                         OkEnvelope(Some(updated)))

\* case 'cancel_event': findOneAndUpdate(..., { cancelled: true }, { new: true })
CancelEvent(db, userId, params) ==
    LET event == findEvent(db, userId, Param(params, "eventId"))
    IN  IF event = None THEN Outcome(db, EventNotFound("update it"))
        ELSE LET updated == ApplyUpdate(EventPaths, Val(event), [cancelled |-> TRUE])
             IN  Outcome([db EXCEPT !.events = (@ \ {Val(event)}) \cup {updated}],
                         OkEnvelope(Some(updated)))

\* case 'delete_event'
DeleteEvent(db, userId, params) ==
    LET event == findEvent(db, userId, Param(params, "eventId"))
    IN  IF event = None THEN Outcome(db, EventNotFound("delete it"))
        ELSE Outcome([db EXCEPT !.events = @ \ {Val(event)}], OkEnvelope(event))

\* exports.handleEventAction; an action outside its switch (fetch_events) only
\* logs a warning and returns { success: true, data: null }
handleEventAction(db, clock, userId, action, params) ==
    LET missing == MissingFalsy(EventRequiredFields(action), params)
    IN  IF missing /= {} THEN Outcome(db, MissingEnvelope(missing))
        ELSE CASE action = "create_event" -> CreateEvent(db, clock, userId, params)
               [] action = "update_event" -> UpdateEvent(db, clock, userId, params)
               [] action = "cancel_event" -> CancelEvent(db, userId, params)
               [] action = "delete_event" -> DeleteEvent(db, userId, params)
               [] OTHER -> Outcome(db, OkEnvelope(None))

-----------------------------------------------------------------------------
(* Invoices: models/Invoice.js and services/actionHandlers/invoiceActions.js *)

InvoiceStatuses == {"Pending", "Paid", "Overdue"}

\* The paths of invoiceSchema.  The schema declares none of xeroInvoiceId,
\* xeroReference, xeroStatus, xeroSyncError, xeroSyncErrorDetails, lastSent,
\* sentTo, invoiceNumber, items, tasks, taxRate.
InvoicePaths == {"_id", "user", "clientName", "amount", "status", "date",
                 "dueDate", "paidDate", "description", "createdAt"}

\* addDays(new Date(), 30), in hours
ThirtyDays == 30 * 24

\* new Date(value) of a date a caller wrote: None for an Invalid Date
NewDate(value) == IF value[1] = "iso" THEN Some(value[2]) ELSE None

\* invoiceSchema's validators and casts: a date path must hold a valid date,
\* status one of the enum, amount at least 0
InvoiceValid(update) ==
    /\ \A p \in {"date", "dueDate"} \cap DOMAIN update : update[p] /= None
    /\ ("status" \in DOMAIN update) => (update.status \in InvoiceStatuses)
    /\ ("amount" \in DOMAIN update) => (update.amount >= 0)

\* A pre-save hook that stamps paidDate and leaves the status as given
InvoicePreSavePaidOnly(doc, clock) ==
    IF doc.status = "Paid" /\ doc.paidDate = None
    THEN [doc EXCEPT !.paidDate = Some(clock)] ELSE doc

\* invoiceSchema.pre('save'): runs on Invoice.create, not on findOneAndUpdate
InvoicePreSave(doc, clock) ==
    LET paid == IF doc.status = "Paid" /\ doc.paidDate = None
                THEN [doc EXCEPT !.paidDate = Some(clock)] ELSE doc
    IN  IF paid.status /= "Paid" /\ Val(paid.dueDate) < clock
        THEN [paid EXCEPT !.status = "Overdue"] ELSE paid

Digits == {"0", "1", "2", "3", "4", "5", "6", "7", "8", "9"}

DigitVal(c) ==
    CASE c = "0" -> 0 [] c = "1" -> 1 [] c = "2" -> 2 [] c = "3" -> 3
      [] c = "4" -> 4 [] c = "5" -> 5 [] c = "6" -> 6 [] c = "7" -> 7
      [] c = "8" -> 8 [] c = "9" -> 9

RECURSIVE DigitsValue(_)
\* parseFloat of a run of digits
DigitsValue(run) ==
    IF run = <<>> THEN 0
    ELSE 10 * DigitsValue(SubSeq(run, 1, Len(run) - 1)) + DigitVal(run[Len(run)])

\* identifier.match(/(\$?\d+(\.\d{1,2})?)/) and parseFloat of the match: the
\* first run of digits of the identifier, None when it has no digit
AmountMatch(identifier) ==
    LET digitAt == {i \in 1..Len(identifier) : identifier[i] \in Digits}
    IN  IF digitAt = {} THEN None
        ELSE LET first == CHOOSE i \in digitAt : \A j \in digitAt : i <= j
                 last == CHOOSE i \in first..Len(identifier) :
                             /\ \A j \in first..i : j \in digitAt
                             /\ (i + 1) \notin digitAt
             IN  Some(DigitsValue(SubSeq(identifier, first, last)))

\* new Date(identifier) of a free-text identifier.  The text "t" followed by a
\* digit d stands for the date string of time d; any other text here is either
\* an Invalid Date or a date that no invoice carries.
DateParsed(identifier) ==
    IF Len(identifier) = 2 /\ identifier[1] = "t" /\ identifier[2] \in Digits
    THEN Some(DigitVal(identifier[2])) ELSE None

\* A lookup that ignores the identifier's form and takes the account's most
\* recent invoice
findMostRecentInvoice(db, userId, identifier) ==
    LET own == {i \in db.invoices : i.user = userId}
    IN  IF own = {} THEN None ELSE Some(MostRecent(own))

\* A lookup that tries the client name before the amount and the date
findInvoiceByNameFirst(db, userId, identifier) ==
    IF ~Truthy(identifier) \/ identifier = Some(<<>>) THEN None
    ELSE LET id == Val(identifier)
             own == {i \in db.invoices : i.user = userId}
             nameInvoices == {i \in own : MatchesPartially(i.clientName, id)}
         IN  IF IsValidObjectId(id) \/ nameInvoices = {}
             THEN findMostRecentInvoice(db, userId, identifier)
             ELSE Some(MostRecent(nameInvoices))

\* findInvoice(userId, identifier): by id, else by amount, else by date or due
\* date, else by part of the client name; the most recently created match
findInvoice(db, userId, identifier) ==
    IF ~Truthy(identifier) \/ identifier = Some(<<>>) THEN None
    ELSE LET id == Val(identifier)
             own == {i \in db.invoices : i.user = userId}
         IN  IF IsValidObjectId(id)
             THEN LET found == {i \in own : i._id = id}
                  IN  IF found = {} THEN None ELSE Some(NaturalFirst(found))
             ELSE LET amount == AmountMatch(id)
                      dateParsed == DateParsed(id)
                      amountInvoices == IF amount = None THEN {}
                                        ELSE {i \in own : i.amount = Val(amount)}
                      dateInvoices == IF dateParsed = None THEN {}
                                      ELSE {i \in own : i.date = dateParsed
                                                        \/ i.dueDate = dateParsed}
                      nameInvoices == {i \in own : MatchesPartially(i.clientName, id)}
                  IN  CASE amountInvoices /= {} -> Some(MostRecent(amountInvoices))
                        [] dateInvoices /= {} -> Some(MostRecent(dateInvoices))
                        [] nameInvoices /= {} -> Some(MostRecent(nameInvoices))
                        [] OTHER -> None

\* invoiceActions.js validateParams: the required fields that are undefined,
\* null or a blank string (amount is a number, never a blank string)
MissingBlank(required, params) ==
    {f \in required :
        LET p == Param(params, f)
        IN  p = None \/ (f /= "amount" /\ (p = JsNull \/ Trim(Val(p)) = <<>>))}

\* The requiredFields table of handleInvoiceAction, row by row
InvoiceRequiredFields(action) ==
    CASE action = "create_invoice" -> {"clientName", "amount"}
      [] action \in {"update_invoice", "mark_invoice_paid", "pay_invoice"} -> {"invoiceId"}
      [] action = "send_invoice" -> {"invoiceId", "email"}
      [] action = "resend_invoice" -> {"invoiceId"}
      [] OTHER -> {}

\* XeroService.getTenantId(): the handler syncs only when it is truthy
XeroConnected(xero) == xero.tenantId /= None

\* The setters of invoiceSchema's string paths (trim: true), as applied when a
\* document or an update is cast
InvoiceSetters(update) ==
    [p \in DOMAIN update |->
        IF p \in {"clientName", "description"} THEN Trim(update[p]) ELSE update[p]]

\* A XeroService call throws when the accounting API fails, and also when
\* getXeroClient() is null: isAuthenticated false with a tenant id still set
SyncThrows(xero, ext) == ext.xeroThrows \/ ~xero.isAuthenticated

\* Invoice.findOneAndUpdate({_id: invoice._id}, update, {new: true}): the
\* collections after it and the document it returns
InvoiceFindOneAndUpdate(db, invoice, update) ==
    LET updated == ApplyUpdate(InvoicePaths, invoice, InvoiceSetters(update))
    IN  [db |-> [db EXCEPT !.invoices = (@ \ {invoice}) \cup {updated}],
         result |-> updated]

\* The accounting block of a case: nothing when not attempted; on a throw the
\* catch writes the sync-error marker; otherwise it writes the Xero reference
XeroStep(db, result, attempted, xero, ext, synced) ==
    IF ~attempted THEN [db |-> db, result |-> result, xeroResult |-> None]
    ELSE IF SyncThrows(xero, ext)
    THEN LET w == InvoiceFindOneAndUpdate(db, result,
                      [xeroSyncError |-> "Failed to sync with Xero",
                       xeroSyncErrorDetails |-> "{}"])
         IN  [db |-> w.db, result |-> w.result, xeroResult |-> None]
    ELSE LET w == InvoiceFindOneAndUpdate(db, result, synced)
         IN  [db |-> w.db, result |-> w.result, xeroResult |-> Some("xero")]

\* params.sendEmail || params.email, and const emailAddress = params.email ||
\* params.sendEmail
EmailRequested(params) ==
    Truthy(Param(params, "sendEmail")) \/ Truthy(Param(params, "email"))

\* The email block of a case and the response that follows it.  sendEmail is
\* awaited outside any try: when it throws, the handler rethrows and
\* handleActionRequest answers { success: false, error }.
EmailStep(step, params, ext, sent) ==
    IF ~EmailRequested(params)
    THEN Outcome(step.db, [OkEnvelope(Some(step.result))
                              EXCEPT !.xeroInvoice = step.xeroResult])
    ELSE IF ext.emailThrows
    THEN Outcome(step.db, ErrorEnvelope("Failed to send email"))
    ELSE LET w == InvoiceFindOneAndUpdate(step.db, step.result, sent)
         IN  Outcome(w.db, [OkEnvelope(Some(w.result))
                               EXCEPT !.xeroInvoice = step.xeroResult,
                                      !.emailStatus = Some("sent")])

EmailAddress(params) ==
    IF Truthy(Param(params, "email")) THEN params.email ELSE Param(params, "sendEmail")

\* case 'create_invoice'
CreateInvoice(db, clock, xero, userId, params, ext) ==
    LET given(f) == Truthy(Param(params, f))
        invoiceData ==
            [_id |-> ObjId(db.nextId + 1), user |-> userId,
             clientName |-> Val(params.clientName), amount |-> Val(params.amount),
             description |-> IF given("description") THEN Val(params.description)
                             ELSE <<>>,
             date |-> IF given("date") THEN NewDate(Val(params.date)) ELSE Some(clock),
             dueDate |-> IF given("dueDate") THEN NewDate(Val(params.dueDate))
                         ELSE Some(clock + ThirtyDays),
             status |-> "Pending", paidDate |-> None, createdAt |-> db.nextId + 1]
    IN  IF ~InvoiceValid(invoiceData)
        THEN Outcome(db, ErrorEnvelope("Invoice validation failed"))
        ELSE LET created == InvoicePreSave(InvoiceSetters(invoiceData), clock)
                 db1 == [db EXCEPT !.invoices = @ \cup {created}, !.nextId = @ + 1]
                 step == XeroStep(db1, created, XeroConnected(xero), xero, ext,
                                  [xeroInvoiceId |-> "xero", xeroReference |-> "INV",
                                   xeroStatus |-> "AUTHORISED"])
             IN  EmailStep(step, params, ext,
                           [lastSent |-> Some(clock), sentTo |-> EmailAddress(params),
                            status |-> step.result.status])

InvoiceNotFound(verb) ==
    ErrorEnvelope(IF verb = "access it"
                  THEN "Invoice not found or you don't have permission to access it"
                  ELSE "Invoice not found or you don't have permission to update it")

\* The updateFields object of case 'update_invoice'
InvoiceUpdateFields(params) ==
    LET given(f) == Truthy(Param(params, f))
        keys == {f \in {"clientName", "date", "dueDate"} : given(f)}
                  \cup (IF Param(params, "amount") \notin {None, Some(0)}
                        THEN {"amount"} ELSE {})
                  \cup {f \in {"status", "description"} : Param(params, f) /= None}
    IN  [f \in keys |->
            CASE f \in {"clientName", "amount", "description"} -> Val(params[f])
              [] f \in {"date", "dueDate"} -> NewDate(Val(params[f]))
              [] f = "status" -> IF Val(params.status) \in InvoiceStatuses
                                 THEN Val(params.status) ELSE "Pending"]

\* case 'update_invoice'
UpdateInvoice(db, clock, xero, userId, params, ext) ==
    LET invoice == findInvoice(db, userId, Param(params, "invoiceId"))
        updateFields == InvoiceUpdateFields(params)
        has(f) == f \in DOMAIN updateFields
    IN  IF invoice = None THEN Outcome(db, InvoiceNotFound("update it"))
        ELSE IF has("date") /\ updateFields.date = None
        THEN Outcome(db, ErrorEnvelope("Invalid date format"))
        ELSE IF has("dueDate") /\ updateFields.dueDate = None
        THEN Outcome(db, ErrorEnvelope("Invalid due date format"))
        ELSE IF ~InvoiceValid(StrictCast(InvoicePaths, updateFields))
        THEN Outcome(db, ErrorEnvelope("Invoice validation failed"))
        ELSE LET w == InvoiceFindOneAndUpdate(db, Val(invoice), updateFields)
                 step == XeroStep(w.db, w.result,
                             XeroConnected(xero) /\ "xeroInvoiceId" \in DOMAIN Val(invoice),
                             xero, ext, [xeroStatus |-> "AUTHORISED"])
             IN  EmailStep(step, params, ext,
                           [lastSent |-> Some(clock), sentTo |-> EmailAddress(params)])

\* A mark-paid that sets the status alone, as the REST route does
MarkInvoicePaidUnstamped(db, clock, xero, userId, params, ext) ==
    LET invoice == findInvoice(db, userId, Param(params, "invoiceId"))
    IN  IF invoice = None THEN Outcome(db, InvoiceNotFound("update it"))
        ELSE LET w == InvoiceFindOneAndUpdate(db, Val(invoice), [status |-> "Paid"])
             IN  Outcome(w.db, OkEnvelope(Some(w.result)))

\* case 'mark_invoice_paid' (and 'pay_invoice', normalised to it)
MarkInvoicePaid(db, clock, xero, userId, params, ext) ==
    LET invoice == findInvoice(db, userId, Param(params, "invoiceId"))
    IN  IF invoice = None THEN Outcome(db, InvoiceNotFound("update it"))
        ELSE LET w == InvoiceFindOneAndUpdate(db, Val(invoice),
                          [status |-> "Paid", paidDate |-> Some(clock),
                           dueDate |-> Val(invoice).dueDate])
                 step == XeroStep(w.db, w.result,
                             XeroConnected(xero) /\ "xeroInvoiceId" \in DOMAIN Val(invoice),
                             xero, ext, [xeroStatus |-> "PAID"])
             IN  EmailStep(step, params, ext, <<>>)

\* case 'send_invoice' (and 'resend_invoice', normalised to it): the email and
\* the update after it sit in a try whose catch throws one fixed message
SendInvoice(db, clock, userId, params, ext) ==
    LET invoice == findInvoice(db, userId, Param(params, "invoiceId"))
    IN  IF invoice = None THEN Outcome(db, InvoiceNotFound("access it"))
        ELSE IF ext.emailThrows
        THEN Outcome(db, ErrorEnvelope("Failed to send invoice email"))
        ELSE LET w == InvoiceFindOneAndUpdate(db, Val(invoice),
                          [lastSent |-> Some(clock), sentTo |-> params.email,
                           status |-> Val(invoice).status])
             IN  Outcome(w.db, [OkEnvelope(Some(w.result))
                                   EXCEPT !.emailStatus = Some("sent")])

\* const normalizedActionType
NormalizedActionType(action) ==
    CASE action = "pay_invoice" -> "mark_invoice_paid"
      [] action = "resend_invoice" -> "send_invoice"
      [] OTHER -> action

\* exports.handleInvoiceAction, with the catch of handleActionRequest applied
\* to what it throws; an action outside its switch (fetch_invoices) throws
handleInvoiceAction(db, clock, xero, userId, action, params, ext) ==
    LET type == NormalizedActionType(action)
        missing == MissingBlank(InvoiceRequiredFields(type), params)
    IN  IF missing /= {} THEN Outcome(db, MissingEnvelope(missing))
        ELSE CASE type = "create_invoice" ->
                      CreateInvoice(db, clock, xero, userId, params, ext)
               [] type = "update_invoice" ->
                      UpdateInvoice(db, clock, xero, userId, params, ext)
               [] type = "mark_invoice_paid" ->
                      MarkInvoicePaid(db, clock, xero, userId, params, ext)
               [] type = "send_invoice" -> SendInvoice(db, clock, userId, params, ext)
               [] OTHER -> Outcome(db, ErrorEnvelope("Unknown action type"))

-----------------------------------------------------------------------------
(* The REST invoice routes: controllers/invoiceController.js *)

\* exports.createInvoice: Invoice.create, so the pre-save hook runs
RestCreateInvoice(db, clock, userId, body) ==
    LET doc == [_id |-> ObjId(db.nextId + 1), user |-> userId,
                clientName |-> body.clientName, amount |-> body.amount,
                description |-> <<>>, date |-> NewDate(body.date),
                dueDate |-> NewDate(body.dueDate), status |-> "Pending",
                paidDate |-> None, createdAt |-> db.nextId + 1]
    IN  IF ~InvoiceValid(doc) THEN db
        ELSE [db EXCEPT !.invoices = @ \cup {InvoicePreSave(InvoiceSetters(doc), clock)},
                        !.nextId = @ + 1]

\* exports.updateInvoice: findOneAndUpdate({_id: id, user}, body fields,
\* {new: true, runValidators: true})
RestUpdateInvoice(db, userId, id, body) ==
    LET found == {i \in db.invoices : i._id = id /\ i.user = userId}
        update == [clientName |-> body.clientName, amount |-> body.amount,
                   status |-> body.status, date |-> NewDate(body.date),
                   dueDate |-> NewDate(body.dueDate)]
    IN  IF found = {} \/ ~InvoiceValid(update) THEN db
        ELSE InvoiceFindOneAndUpdate(db, NaturalFirst(found), update).db

\* exports.markAsPaid: findOneAndUpdate({_id: id, user}, {status: 'Paid'})
RestMarkAsPaid(db, userId, id) ==
    LET found == {i \in db.invoices : i._id = id /\ i.user = userId}
    IN  IF found = {} THEN db
        ELSE InvoiceFindOneAndUpdate(db, NaturalFirst(found), [status |-> "Paid"]).db

\* exports.getAllInvoices: the account's invoices as stored, filtered by the
\* stored status when the query names one
getAllInvoices(db, userId, status) ==
    {i \in db.invoices : i.user = userId /\ (status /= None => i.status = Val(status))}

\* dataService.js getUserContextData: the invoices it hands to the prompt,
\* grouped by their stored status
getUserContextData(db, userId) ==
    LET all == {i \in db.invoices : i.user = userId}
    IN  [all |-> all,
         pending |-> {i \in all : i.status = "Pending"},
         overdue |-> {i \in all : i.status = "Overdue"},
         paid |-> {i \in all : i.status = "Paid"}]

-----------------------------------------------------------------------------
(* The dispatcher: services/actionHandlers/baseActions.js *)

TaskActions == {"create_task", "update_task", "complete_task", "uncomplete_task",
                "reopen_task", "fetch_tasks"}

EventActions == {"create_event", "update_event", "cancel_event", "delete_event",
                 "fetch_events"}

InvoiceActions == {"create_invoice", "update_invoice", "mark_invoice_paid",
                   "pay_invoice", "send_invoice", "resend_invoice", "fetch_invoices"}

\* exports.handleActionRequest: routes on the action's name; whatever a handler
\* throws becomes { success: false, error: error.message }
handleActionRequest(db, clock, xero, userId, action, params, ext) ==
    CASE action \in TaskActions -> handleTaskAction(db, clock, userId, action, params)
      [] action \in EventActions -> handleEventAction(db, clock, userId, action, params)
      [] action \in InvoiceActions ->
             handleInvoiceAction(db, clock, xero, userId, action, params, ext)
      [] OTHER -> Outcome(db, ErrorEnvelope("Unknown action type"))

-----------------------------------------------------------------------------
(* The interpreter: services/openaiService.js generateAIResponse *)

\* A reply text is a sequence of pieces; a piece stands for a literal or for
\* an interpolated value
Contains(text, piece) == \E i \in 1..Len(text) : text[i] = piece

\* The message of the SyntaxError that JSON.parse throws
ParseError == "Unexpected token in JSON"

\* `I encountered an issue processing your request. Please try again.\n\n
\* Error: ${e.message}`
Apology(message) ==
    <<"I encountered an issue processing your request. Please try again.",
      "Error: ", message>>

RECURSIVE NumberedList(_, _)
\* options.map((o, i) => `${i + 1}. ${o}`).join('\n'), from index i on
NumberedList(options, i) ==
    IF i > Len(options) THEN <<>>
    ELSE <<ToString(i), options[i]>> \o NumberedList(options, i + 1)

\* The reply of the needsClarification branch
ClarificationReply(response, ask) ==
    LET head == IF response /= None THEN Val(response)
                ELSE <<"I need more information: ", ask.question>>
    IN  IF ask.options = None THEN head
        ELSE head \o <<"Options:">> \o NumberedList(Val(ask.options), 1)

\* The account's own email.  An account created by the WhatsApp middleware's
\* upsert ("u2") has none.
UserEmail(userId) == IF userId = "u1" THEN Some(<<"m", userId>>) ELSE None

\* The pieces of a message text that the email pattern of
\* extractEmailFromContext matches
EmailPieces == {"x@mail.com", "y@mail.com"}

\* message.text.match(emailRegex): the first address in the text, if any
EmailMatch(text) ==
    LET hits == {i \in 1..Len(text) : text[i] \in EmailPieces}
    IN  IF hits = {} THEN None
        ELSE Some(<<text[CHOOSE i \in hits : \A k \in hits : i <= k]>>)

\* An extraction that takes the first message of the history that has an
\* address
extractOldestEmail(conversationHistory, userContext) ==
    IF userContext.email /= None THEN userContext.email
    ELSE LET hits == {i \in 1..Len(conversationHistory) :
                         EmailMatch(conversationHistory[i]) /= None}
         IN  IF hits = {} THEN None
             ELSE EmailMatch(conversationHistory[
                      CHOOSE i \in hits : \A k \in hits : i <= k])

\* extractEmailFromContext(conversationHistory, userContext): the account's
\* email, else the address in the last message of the history that has one
extractEmailFromContext(conversationHistory, userContext) ==
    IF userContext.email /= None THEN userContext.email
    ELSE LET hits == {i \in 1..Len(conversationHistory) :
                         EmailMatch(conversationHistory[i]) /= None}
         IN  IF hits = {} THEN None
             ELSE EmailMatch(conversationHistory[
                      CHOOSE i \in hits : \A k \in hits : k <= i])

\* What sendMessage hands to generateAIResponse: the account's email, the
\* first of formattedData.invoices.all, which getUserContextData sorts by
\* {dueDate: 1, createdAt: -1}, and the conversation history (filled in by
\* sendMessage)
ContextOf(db, userId) ==
    LET all == {i \in db.invoices : i.user = userId}
        first == CHOOSE i \in all : \A k \in all :
                     \/ Val(i.dueDate) < Val(k.dueDate)
                     \/ (i.dueDate = k.dueDate /\ i.createdAt >= k.createdAt)
    IN  [email |-> UserEmail(userId),
         firstInvoice |-> IF all = {} THEN None ELSE Some(first._id),
         history |-> <<>>]

\* A parameter the interpreter tests with !params.x
Given(params, f) == Truthy(Param(params, f)) /\ Param(params, f) /= Some(<<>>)

\* The send_invoice block: params.email from extractEmailFromContext when the
\* reply has none, params.invoiceId from the context's first invoice when the
\* reply has neither invoiceId nor clientName; error when it throws
SendInvoiceParams(params, context) ==
    LET extracted == extractEmailFromContext(context.history, context)
        withEmail == IF Given(params, "email") THEN params
                     ELSE [f \in DOMAIN params \cup {"email"} |->
                              IF f = "email" THEN extracted ELSE params[f]]
    IN  IF ~Given(params, "email") /\ extracted = None
        THEN [params |-> None,
              error |-> "Email address is required to send invoice. Please provide recipient email address."]
        ELSE IF Given(params, "invoiceId") \/ Given(params, "clientName")
        THEN [params |-> Some(withEmail), error |-> ""]
        ELSE IF context.firstInvoice = None
        THEN [params |-> None, error |-> "No invoices found to send."]
        ELSE [params |-> Some([f \in DOMAIN withEmail \cup {"invoiceId"} |->
                                  IF f = "invoiceId" THEN context.firstInvoice
                                  ELSE withEmail[f]]),
              error |-> ""]

FetchActions == {"fetch_tasks", "fetch_events", "fetch_invoices"}

\* An action name the model may give that no handler knows
UnknownActions == {"archive_task"}

\* parsedResponse.action.includes(word), for the words the interpreter tests
Includes(action, word) ==
    CASE word = "fetch" -> action \in FetchActions
      [] word = "event" -> action \in EventActions
      [] word = "invoice" -> action \in InvoiceActions
      [] word = "task" -> action \in TaskActions \cup UnknownActions
      [] OTHER -> FALSE

\* An interpreter that dispatches whatever the reply names
PreDispatchUnchecked(action, params) == None

\* The checks before the dispatch: an action whose name includes 'event',
\* 'invoice' or 'task' needs a title/name or an id, unless it includes 'fetch'
PreDispatchError(action, params) ==
    LET has(f) == Given(params, f)
    IN  CASE Includes(action, "fetch") -> None
          [] Includes(action, "event") /\ ~has("title") /\ ~has("eventId") ->
                 Some("Event actions require either title or eventId")
          [] Includes(action, "invoice") /\ ~has("clientName") /\ ~has("invoiceId") ->
                 Some("Invoice actions require either clientName or invoiceId")
          [] Includes(action, "task") /\ ~has("title") /\ ~has("taskId") ->
                 Some("Task actions require either title or taskId")
          [] OTHER -> None

\* The reply after the dispatch: the model's response or a per-domain
\* template on success, the envelope's error otherwise
ActionReply(parsed, env) ==
    IF ~env.success THEN <<"I couldn't complete that action: ", env.error>>
    ELSE IF parsed.response /= None THEN Val(parsed.response)
    ELSE CASE Includes(Val(parsed.action), "event") -> <<"Event scheduled">>
           [] Val(parsed.action) = "send_invoice" -> <<"Invoice sent successfully">>
           [] Includes(Val(parsed.action), "invoice") -> <<"Invoice processed successfully">>
           [] Includes(Val(parsed.action), "task") -> <<"Task processed successfully">>
           [] Includes(Val(parsed.action), "fetch") -> <<"Here are the results:">>
           [] OTHER -> <<"Action completed successfully.">>

\* What generateAIResponse returns after the completion came back, and the
\* collections after it; dispatched tells whether handleActionRequest ran and
\* params what it was called with
Interpreted(db, finalResponse, actionResult, dispatched, params) ==
    [db |-> db, finalResponse |-> finalResponse, actionResult |-> actionResult,
     dispatched |-> dispatched, params |-> params]

\* The try block of generateAIResponse and its catch, for the reply aiResponse
generateAIResponse(db, clock, xero, userId, context, aiResponse) ==
    IF ~aiResponse.json THEN Interpreted(db, Apology(ParseError), None, FALSE, None)
    ELSE LET parsed == aiResponse
         IN  IF parsed.needsClarification /= None
             THEN Interpreted(db, ClarificationReply(parsed.response,
                                      Val(parsed.needsClarification)), None, FALSE, None)
             ELSE IF parsed.action \notin {None, Some("none")}
             THEN LET action == Val(parsed.action)
                      sending == IF action = "send_invoice"
                                 THEN SendInvoiceParams(parsed.params, context)
                                 ELSE [params |-> Some(parsed.params), error |-> ""]
                      params == sending.params
                  IN  IF params = None
                      THEN Interpreted(db, Apology(sending.error), None, FALSE, None)
                      ELSE IF PreDispatchError(action, Val(params)) /= None
                      THEN Interpreted(db,
                               Apology(Val(PreDispatchError(action, Val(params)))),
                               None, FALSE, None)
                      ELSE LET out == handleActionRequest(db, clock, xero, userId,
                                          action, Val(params), NoExt)
                           IN  Interpreted(out.db, ActionReply(parsed, out.env),
                                           Some(out.env), TRUE, params)
             ELSE Interpreted(db, IF parsed.response /= None
                                  THEN Val(parsed.response) ELSE <<"raw">>,
                              None, FALSE, None)

-----------------------------------------------------------------------------
(* Inputs *)

Titles == {<<"a">>, <<"A">>}

\* Client names as a caller writes them, one with leading whitespace
ClientNames == {<<"a">>, <<" ", "a">>}

\* The parameter that names the record an action is about
TargetField(action) ==
    CASE action \in TaskActions -> "taskId"
      [] action \in EventActions -> "eventId"
      [] OTHER -> "invoiceId"

\* The requiredFields tables of the three handlers, by the action's name
RequiredFields(action) ==
    CASE action \in TaskActions -> TaskRequiredFields(action)
      [] action \in EventActions -> EventRequiredFields(action)
      [] OTHER -> InvoiceRequiredFields(action)

\* A value a caller gives for a required parameter
GivenValue(field) ==
    CASE field = "amount" -> Some(1)
      [] field = "startTime" -> Some(DateIso(1))
      [] field = "email" -> Some(<<"e">>)
      [] OTHER -> Some(<<"a">>)

\* The params objects over an action's required parameters: each is given, or
\* is undefined, null or an empty string
RequiredParams(action) ==
    LET forms(f) == IF f = "amount" THEN {GivenValue(f), None}
                    ELSE {GivenValue(f), None, JsNull, Some(<<>>)}
        required == RequiredFields(action)
    IN  CASE required = {"title"} -> [title : forms("title")]
          [] required = {"taskId"} -> [taskId : forms("taskId")]
          [] required = {"title", "startTime"} ->
                 [title : forms("title"), startTime : forms("startTime")]
          [] required = {"eventId"} -> [eventId : forms("eventId")]
          [] required = {"clientName", "amount"} ->
                 [clientName : forms("clientName"), amount : forms("amount")]
          [] required = {"invoiceId"} -> [invoiceId : forms("invoiceId")]
          [] required = {"invoiceId", "email"} ->
                 [invoiceId : forms("invoiceId"), email : forms("email")]
          [] OTHER -> {<<>>}

-----------------------------------------------------------------------------
(* State machine *)

Xero == [tenantId |-> tenantId, isAuthenticated |-> isAuthenticated]

\* The sendMessage requests
Requests == 1..MaxRequests

\* A request that has not arrived yet
IdleRequest ==
    [pc |-> "idle", user |-> "", conversation |-> None, context |-> None,
     aiResponse |-> None, finalResponse |-> <<>>, llmCalls |-> 0,
     dispatched |-> FALSE, status |-> 0]

NoCall == [user |-> "", action |-> "", target |-> None, ext |-> NoExt]

Init ==
    /\ now = 1
    /\ nextId = 0
    /\ tasks = {}
    /\ events = {}
    /\ invoices = {}
    /\ tenantId = None
    /\ isAuthenticated = FALSE
    /\ lastCall = NoCall
    /\ lastEnv = None
    /\ conversations = {}
    /\ messages = <<>>
    /\ req = [r \in Requests |-> IdleRequest]

\* Time passes
Tick ==
    /\ now < MaxTime
    /\ now' = now + 1
    /\ UNCHANGED <<dbVars, xeroVars, lastCall, lastEnv, chatVars>>

\* One call of handleActionRequest(userId, {action}, params), start to finish.
\* lastCall keeps who called, the action, the record named and what the
\* collaborators did; lastEnv keeps the envelope returned.
Dispatch(userId, action, params, ext) ==
    \E out \in {handleActionRequest(Db, now, Xero, userId, action, params, ext)} :
        /\ out.db.nextId <= MaxRecords
        /\ nextId' = out.db.nextId
        /\ tasks' = out.db.tasks
        /\ events' = out.db.events
        /\ invoices' = out.db.invoices
        /\ lastCall' = [user |-> userId, action |-> action,
                        target |-> Param(params, TargetField(action)), ext |-> ext]
        /\ lastEnv' = Some(out.env)
        /\ UNCHANGED <<now, xeroVars, chatVars>>

\* The params objects of the task actions, over the titles T
CreateTaskParams(T) ==
    [title : Opt(T), status : Opt(TaskStatuses)]

UpdateTaskParams(T) ==
    [taskId : Opt(ObjectIds \cup T), completed : Opt(BOOLEAN), status : Opt(TaskStatuses)]

TargetTaskParams(T) ==
    [taskId : Opt(ObjectIds \cup T)]

ReopenTaskParams(T) ==
    [taskId : Opt(ObjectIds \cup T), status : Opt(TaskStatuses)]

FetchTaskParams ==
    [status : Opt(TaskStatuses), completed : Opt(BOOLEAN)]

DoCreateTask(U, P) ==
    \E u \in U, params \in P :
        Dispatch(u, "create_task", params, NoExt)

DoUpdateTask(U, P) ==
    \E u \in U, params \in P :
        Dispatch(u, "update_task", params, NoExt)

DoCompleteTask(U, P) ==
    \E u \in U, params \in P :
        Dispatch(u, "complete_task", params, NoExt)

DoReopenTask(U, P) ==
    \E u \in U, params \in P,
       action \in {"uncomplete_task", "reopen_task"} :
        Dispatch(u, action, params, NoExt)

DoFetchTasks(U) ==
    \E u \in U, params \in FetchTaskParams :
        Dispatch(u, "fetch_tasks", params, NoExt)

NextTask ==
    \/ Tick
    \/ DoCreateTask({"u1"}, CreateTaskParams({<<"a">>}))
    \/ DoUpdateTask({"u1"}, UpdateTaskParams({<<"a">>}))
    \/ DoCompleteTask({"u1"}, TargetTaskParams({<<"a">>}))
    \/ DoReopenTask({"u1"}, ReopenTaskParams({<<"a">>}))
    \/ DoFetchTasks({"u1"})

\* The dispatcher's task actions of one account
SpecTask == Init /\ [][NextTask]_vars

\* The due dates a caller writes for a task: dates around the clock, the
\* literals of parseDateInput, and a text that is neither
TaskDateInputs ==
    {DateIso(t) : t \in 0..(MaxTime + 1)}
        \cup {DateWord(w) : w \in {"yesterday", "today", "tomorrow"}} \cup {DateJunk}

\* create_task with a due date, with and without the allowPastDue override
DueTaskParams(T) ==
    [title : {Some(t) : t \in T}, dueDate : Opt(TaskDateInputs),
     allowPastDue : Opt(BOOLEAN)]

NextDue ==
    \/ Tick
    \/ DoCreateTask({"u1"}, DueTaskParams({<<"a">>}))
    \/ DoCompleteTask({"u1"}, TargetTaskParams({<<"a">>}))

\* Tasks of one account created with due dates as time passes
SpecDue == Init /\ [][NextDue]_vars

\* The dates a caller writes for an event: parseable ones over the clock's
\* range, and one that new Date() cannot parse
EventDateInputs == {DateIso(t) : t \in 0..MaxTime} \cup {DateJunk}

CreateEventParams(T) ==
    [title : Opt(T), startTime : Opt(EventDateInputs), endTime : Opt(EventDateInputs)]

UpdateEventParams(T) ==
    [eventId : Opt(ObjectIds \cup T), startTime : Opt(EventDateInputs),
     endTime : Opt(EventDateInputs) \cup {JsNull}]

TargetEventParams(T) ==
    [eventId : Opt(ObjectIds \cup T)]

DoCreateEvent(U, P) ==
    \E u \in U, params \in P :
        Dispatch(u, "create_event", params, NoExt)

DoUpdateEvent(U, P) ==
    \E u \in U, params \in P :
        Dispatch(u, "update_event", params, NoExt)

DoCancelEvent(U, P) ==
    \E u \in U, params \in P :
        Dispatch(u, "cancel_event", params, NoExt)

DoDeleteEvent(U, P) ==
    \E u \in U, params \in P :
        Dispatch(u, "delete_event", params, NoExt)

DoFetchEvents(U) ==
    \E u \in U : Dispatch(u, "fetch_events", <<>>, NoExt)

NextEvent ==
    \/ Tick
    \/ DoCreateEvent({"u1"}, CreateEventParams({<<"a">>}))
    \/ DoUpdateEvent({"u1"}, UpdateEventParams({<<"a">>}))
    \/ DoCancelEvent({"u1"}, TargetEventParams({<<"a">>}))
    \/ DoDeleteEvent({"u1"}, TargetEventParams({<<"a">>}))
    \/ DoFetchEvents({"u1"})

\* The dispatcher's event actions of one account
SpecEvent == Init /\ [][NextEvent]_vars


\* What the collaborators of a call may do: the accounting API can throw only
\* when the handler can reach it, the mailer only when an address is given
Exts(params) ==
    [xeroThrows : IF tenantId /= None THEN BOOLEAN ELSE {FALSE},
     emailThrows : IF EmailRequested(params) THEN BOOLEAN ELSE {FALSE}]

Emails == {<<"e">>}

\* The dates a caller writes for an invoice
InvoiceDateInputs == {DateIso(t) : t \in 0..MaxTime} \cup {DateJunk}

\* The params objects of the invoice actions, over the client names T, the
\* due dates D, the statuses S and the addresses E
CreateInvoiceParams(T, D, E) ==
    [clientName : Opt(T), amount : Opt({1}), dueDate : Opt(D), email : Opt(E)]

UpdateInvoiceParams(T, D, S, E) ==
    [invoiceId : Opt(ObjectIds \cup T), dueDate : Opt(D), status : Opt(S),
     email : Opt(E)]

TargetInvoiceParams(T, E) ==
    [invoiceId : Opt(ObjectIds \cup T), email : Opt(E)]

DoCreateInvoice(U, P) ==
    \E u \in U, params \in P :
        \E ext \in Exts(params) : Dispatch(u, "create_invoice", params, ext)

DoUpdateInvoice(U, P) ==
    \E u \in U, params \in P :
        \E ext \in Exts(params) : Dispatch(u, "update_invoice", params, ext)

DoMarkInvoicePaid(U, P) ==
    \E u \in U, params \in P, action \in {"mark_invoice_paid", "pay_invoice"} :
        \E ext \in Exts(params) : Dispatch(u, action, params, ext)

DoSendInvoice(U, P) ==
    \E u \in U, params \in P, action \in {"send_invoice", "resend_invoice"} :
        \E ext \in Exts(params) : Dispatch(u, action, params, ext)

DoFetchInvoices(U) ==
    \E u \in U : Dispatch(u, "fetch_invoices", <<>>, NoExt)

\* One request of a REST invoice route, start to finish
Rest(userId, route, id, db) ==
    /\ db.nextId <= MaxRecords
    /\ nextId' = db.nextId
    /\ invoices' = db.invoices
    /\ lastCall' = [user |-> userId, action |-> route, target |-> id, ext |-> NoExt]
    /\ lastEnv' = None
    /\ UNCHANGED <<now, tasks, events, xeroVars, chatVars>>

\* The request bodies of the REST routes
RestBodies(T) ==
    [clientName : T, amount : {1}, status : InvoiceStatuses,
     date : {DateIso(1)}, dueDate : {DateIso(t) : t \in 0..MaxTime}]

DoRestCreateInvoice(U, T) ==
    \E u \in U, body \in RestBodies(T) :
        Rest(u, "POST /invoices", None, RestCreateInvoice(Db, now, u, body))

DoRestUpdateInvoice(U, T) ==
    \E u \in U, id \in ObjectIds, body \in RestBodies(T) :
        Rest(u, "PATCH /invoices/:id", Some(id), RestUpdateInvoice(Db, u, id, body))

DoRestMarkAsPaid(U) ==
    \E u \in U, id \in ObjectIds :
        Rest(u, "PATCH /invoices/:id/pay", Some(id), RestMarkAsPaid(Db, u, id))

\* module.exports.getTenantId
getTenantId(xero) == xero.tenantId

\* module.exports.getXeroClient: isAuthenticated ? xero : null
getXeroClient(xero) == IF xero.isAuthenticated THEN Some("xero") ELSE None

\* XeroController.callback succeeds: the tenant is stored
XeroCallback ==
    /\ tenantId' = Some("tenant")
    /\ isAuthenticated' = TRUE
    /\ UNCHANGED <<now, dbVars, lastCall, lastEnv, chatVars>>

\* XeroController.callback throws: only isAuthenticated is reset
XeroCallbackFails ==
    /\ isAuthenticated' = FALSE
    /\ UNCHANGED <<now, dbVars, tenantId, lastCall, lastEnv, chatVars>>

\* One invoice of one account as time passes: created by the dispatcher or
\* over REST, then updated, paid and read
NextInvoice ==
    \/ Tick
    \/ invoices = {} /\ DoCreateInvoice({"u1"},
                            CreateInvoiceParams({<<"a">>}, InvoiceDateInputs, {}))
    \/ invoices = {} /\ DoRestCreateInvoice({"u1"}, {<<"a">>})
    \/ DoUpdateInvoice({"u1"}, UpdateInvoiceParams({<<"a">>}, InvoiceDateInputs, InvoiceStatuses, {}))
    \/ DoMarkInvoicePaid({"u1"}, TargetInvoiceParams({<<"a">>}, {}))
    \/ DoFetchInvoices({"u1"})
    \/ DoRestUpdateInvoice({"u1"}, {<<"a">>})
    \/ DoRestMarkAsPaid({"u1"})

SpecInvoice == Init /\ [][NextInvoice]_vars

\* One invoice of one account with its collaborators: the accounting
\* connection coming and going, the accounting API and the mailer failing
NextSync ==
    \/ XeroCallback
    \/ XeroCallbackFails
    \/ invoices = {} /\ DoCreateInvoice({"u1"}, CreateInvoiceParams({<<"a">>}, {}, Emails))
    \/ DoUpdateInvoice({"u1"}, UpdateInvoiceParams({<<"a">>}, {}, {"Overdue"}, Emails))
    \/ DoMarkInvoicePaid({"u1"}, TargetInvoiceParams({<<"a">>}, Emails))
    \/ DoSendInvoice({"u1"}, TargetInvoiceParams({<<"a">>}, Emails))

SpecSync == Init /\ [][NextSync]_vars

\* The actions that operate on an existing record
ExistingRecordActions ==
    {"update_task", "complete_task", "uncomplete_task", "reopen_task",
     "update_event", "cancel_event", "delete_event",
     "update_invoice", "mark_invoice_paid", "send_invoice"}

\* The params objects that name a record by id or by one of the texts T in
\* field, next to the other fields of change
OnRecord(field, T, change) ==
    {[f \in {field} \cup DOMAIN change |->
         IF f = field THEN Some(identifier) ELSE change[f]] :
        identifier \in ObjectIds \cup T}

ExistingRecordParams(action, T) ==
    CASE action = "update_task" ->
             OnRecord("taskId", T, [status |-> Some("On Hold")])
      [] action = "update_event" ->
             OnRecord("eventId", T, [startTime |-> Some(DateIso(0))])
      [] action = "update_invoice" ->
             OnRecord("invoiceId", T, [status |-> Some("Overdue")])
      [] action = "send_invoice" ->
             OnRecord("invoiceId", T, [email |-> Some(<<"e">>)])
      [] OTHER -> OnRecord(TargetField(action), T, <<>>)

\* Two accounts: each may create a task, an event and an invoice, and the
\* first acts on records by id and by name
NextIsolation ==
    \/ DoCreateTask(Users, {[title |-> Some(<<"a">>)]})
    \/ DoCreateEvent(Users, {[title |-> Some(<<"a">>), startTime |-> Some(DateIso(1))]})
    \/ DoCreateInvoice(Users, {[clientName |-> Some(<<"a">>), amount |-> Some(1)]})
    \/ \E action \in ExistingRecordActions :
           \E params \in ExistingRecordParams(action, {<<"a">>}) :
               Dispatch("u1", action, params, NoExt)

SpecIsolation == Init /\ [][NextIsolation]_vars

-----------------------------------------------------------------------------
(* Chat turns: controllers/chatController.js sendMessage *)

\* The conversation document of an account; its user path is unique
ConversationOf(userId) == [_id |-> <<"conversation", userId>>, user |-> userId]

\* A Message document; request tells which request created it
Message(r, sender, text) ==
    [text |-> text, sender |-> sender, conversation |-> Val(req[r].conversation),
     user |-> req[r].user, request |-> r]

\* A request moves to its next await, or ends with a status
Goto(r, pc, fields) ==
    req' = [req EXCEPT ![r] = [f \in DOMAIN @ |->
                IF f = "pc" THEN pc
                ELSE IF f \in DOMAIN fields THEN fields[f] ELSE @[f]]]

Ends(r, status) == Goto(r, "done", [status |-> status])

\* The request arrives; text is checked before anything is read or written
Receive(r, userId, valid) ==
    /\ req[r].pc = "idle"
    /\ \A q \in Requests : q < r => req[q].pc /= "idle"
    /\ IF valid THEN Goto(r, "findConversation", [user |-> userId])
       ELSE Goto(r, "done", [user |-> userId, status |-> 400])
    /\ UNCHANGED <<now, dbVars, xeroVars, lastCall, lastEnv, conversations, messages>>

\* conversation = await Conversation.findOne({ user })
FindConversation(r) ==
    /\ req[r].pc = "findConversation"
    /\ IF ConversationOf(req[r].user) \in conversations
       THEN Goto(r, "saveUser",
                 [conversation |-> Some(ConversationOf(req[r].user)._id)])
       ELSE Goto(r, "createConversation", <<>>)
    /\ UNCHANGED <<now, dbVars, xeroVars, lastCall, lastEnv, conversations, messages>>

\* conversation = await Conversation.create({ user }): the unique index
\* rejects a second conversation of the account, and the request ends 500
CreateConversation(r) ==
    /\ req[r].pc = "createConversation"
    /\ IF ConversationOf(req[r].user) \in conversations
       THEN Ends(r, 500) /\ UNCHANGED conversations
       ELSE /\ conversations' = conversations \cup {ConversationOf(req[r].user)}
            /\ Goto(r, "saveUser",
                    [conversation |-> Some(ConversationOf(req[r].user)._id)])
    /\ UNCHANGED <<now, dbVars, xeroVars, lastCall, lastEnv, messages>>

\* userMessage = await Message.create({ sender: 'user', ... }) with the text
\* of the request
SaveUserMessage(r, text) ==
    /\ req[r].pc = "saveUser"
    /\ messages' = Append(messages, Message(r, "user", text))
    /\ Goto(r, "fetch", <<>>)
    /\ UNCHANGED <<now, dbVars, xeroVars, lastCall, lastEnv, conversations>>

\* Message.find({ conversation }).sort({ createdAt: 1 }): the texts of the
\* conversation's messages, oldest first
HistoryOf(conversation) ==
    LET own == SelectSeq(messages, LAMBDA m : m.conversation = conversation)
    IN  [i \in 1..Len(own) |-> own[i].text]

\* The history and getUserContextData(req.user.id) come back
FetchContext(r) ==
    /\ req[r].pc = "fetch"
    /\ Goto(r, "llm", [context |-> Some([ContextOf(Db, req[r].user) EXCEPT
                                            !.history = HistoryOf(Val(req[r].conversation))])])
    /\ UNCHANGED <<now, dbVars, xeroVars, lastCall, lastEnv, conversations, messages>>

\* The read throws: 'Failed to retrieve conversation history or context', 500
FetchContextFails(r) ==
    /\ req[r].pc = "fetch"
    /\ Ends(r, 500)
    /\ UNCHANGED <<now, dbVars, xeroVars, lastCall, lastEnv, conversations, messages>>

\* openai.chat.completions.create resolves with the reply aiResponse
CallLLM(r, aiResponse) ==
    /\ req[r].pc = "llm"
    /\ Goto(r, "interpret", [aiResponse |-> Some(aiResponse),
                             llmCalls |-> req[r].llmCalls + 1])
    /\ UNCHANGED <<now, dbVars, xeroVars, lastCall, lastEnv, conversations, messages>>

\* A completion call that is made again after it rejected
CallLLMRetried(r) ==
    /\ req[r].pc = "llm"
    /\ req[r].llmCalls <= MaxRequests
    /\ Goto(r, "llm", [llmCalls |-> req[r].llmCalls + 1])
    /\ UNCHANGED <<now, dbVars, xeroVars, lastCall, lastEnv, conversations, messages>>

\* The completion call rejects: it sits outside generateAIResponse's try, so
\* sendMessage's catch answers 'AI failed to generate a response', 500
CallLLMFails(r) ==
    /\ req[r].pc = "llm"
    /\ Goto(r, "done", [llmCalls |-> req[r].llmCalls + 1, status |-> 500])
    /\ UNCHANGED <<now, dbVars, xeroVars, lastCall, lastEnv, conversations, messages>>

\* The rest of generateAIResponse: parse, clarify or dispatch, build the reply
Interpret(r) ==
    /\ req[r].pc = "interpret"
    /\ \E out \in {generateAIResponse(Db, now, Xero, req[r].user,
                                        Val(req[r].context), Val(req[r].aiResponse))} :
           /\ out.db.nextId <= MaxRecords
           /\ nextId' = out.db.nextId
           /\ tasks' = out.db.tasks
           /\ events' = out.db.events
           /\ invoices' = out.db.invoices
           /\ Goto(r, "saveAssistant", [finalResponse |-> out.finalResponse,
                                        dispatched |-> out.dispatched])
    /\ UNCHANGED <<now, xeroVars, lastCall, lastEnv, conversations, messages>>

\* assistantMessage = await Message.create({ sender: 'assistant', ... }), then
\* res.status(201)
SaveAssistantMessage(r) ==
    /\ req[r].pc = "saveAssistant"
    /\ messages' = Append(messages, Message(r, "assistant", req[r].finalResponse))
    /\ Ends(r, 201)
    /\ UNCHANGED <<now, dbVars, xeroVars, lastCall, lastEnv, conversations>>

\* Message.create rejects: 'Failed to save assistant message', 500
SaveAssistantMessageFails(r) ==
    /\ req[r].pc = "saveAssistant"
    /\ Ends(r, 500)
    /\ UNCHANGED <<now, dbVars, xeroVars, lastCall, lastEnv, conversations, messages>>

\* The replies the language model may give
PlainReply ==
    [json |-> TRUE, needsClarification |-> None, response |-> Some(<<"Hello">>),
     action |-> None, params |-> <<>>]

\* A reply that is not JSON
InvalidReply == [PlainReply EXCEPT !.json = FALSE, !.response = None]

Question == "What email should I use?"

\* needsClarification, with and without options, with and without a response
\* string, next to an action the model also named
ClarificationReplies ==
    {[PlainReply EXCEPT !.needsClarification = Some([question |-> Question,
                                                     options |-> options]),
                        !.response = response,
                        !.action = Some("create_task"),
                        !.params = [title |-> Some(<<"a">>)]] :
        options \in {None, Some(<<"x", "y">>)},
        response \in {None, Some(<<"Sure">>)}}

\* Action intents: one that creates, one that names no record, one that the
\* interpreter completes from the context
ActionReplies ==
    {[PlainReply EXCEPT !.response = None, !.action = Some("create_task"),
                        !.params = [title |-> Some(<<"a">>)]],
     [PlainReply EXCEPT !.action = Some("complete_task"),
                        !.params = [taskId |-> Some(ObjId(MaxRecords + 1))]],
     [PlainReply EXCEPT !.response = None, !.action = Some("send_invoice"),
                        !.params = [invoiceId |-> None]]}

LLMReplies == {PlainReply, InvalidReply} \cup ClarificationReplies \cup ActionReplies

\* Requests of one account, arriving at any time and served concurrently
NextChat ==
    \E r \in Requests :
        \/ \E valid \in BOOLEAN : Receive(r, "u1", valid)
        \/ FindConversation(r)
        \/ CreateConversation(r)
        \/ SaveUserMessage(r, <<"hi">>)
        \/ FetchContext(r)
        \/ FetchContextFails(r)
        \/ \E aiResponse \in LLMReplies : CallLLM(r, aiResponse)
        \/ CallLLMFails(r)
        \/ Interpret(r)
        \/ SaveAssistantMessage(r)
        \/ SaveAssistantMessageFails(r)

SpecChat == Init /\ [][NextChat]_vars

\* What a user writes: a text with no address, and texts that carry one
UserTexts == {<<"hi">>, <<"mail ", "x@mail.com">>, <<"mail ", "y@mail.com">>}

\* A reply that asks for the action with the params
ActionReplyOf(action, params) ==
    [PlainReply EXCEPT !.response = None, !.action = Some(action), !.params = params]

\* send_invoice intents without an email; an intent that names no record; a
\* fetch
SendReplies ==
    {ActionReplyOf("send_invoice", [invoiceId |-> None]),
     ActionReplyOf("send_invoice", [invoiceId |-> Some(ObjId(1))]),
     ActionReplyOf("complete_task", [taskId |-> None]),
     ActionReplyOf("fetch_invoices", <<>>)}

\* The account without an email of its own: it creates invoices, and its
\* turns, one after the other, name an address and ask to send an invoice
NextSend ==
    \/ DoCreateInvoice({"u2"}, {[clientName |-> Some(<<"a">>), amount |-> Some(1)]})
    \/ \E r \in Requests :
           \/ (\A q \in Requests : q < r => req[q].pc = "done") /\ Receive(r, "u2", TRUE)
           \/ FindConversation(r)
           \/ CreateConversation(r)
           \/ \E text \in UserTexts \ {<<"hi">>} : SaveUserMessage(r, text)
           \/ FetchContext(r)
           \/ \E aiResponse \in SendReplies : CallLLM(r, aiResponse)
           \/ Interpret(r)
           \/ SaveAssistantMessage(r)

SpecSend == Init /\ [][NextSend]_vars

\* An account's invoices are created as time passes, and one turn asks to
\* send an invoice without naming it
NextRecent ==
    \/ Tick
    \/ DoCreateInvoice({"u1"}, {[clientName |-> Some(<<"a">>), amount |-> Some(1)]})
    \/ Receive(1, "u1", TRUE)
    \/ FindConversation(1)
    \/ CreateConversation(1)
    \/ SaveUserMessage(1, <<"hi">>)
    \/ FetchContext(1)
    \/ CallLLM(1, ActionReplyOf("send_invoice", [invoiceId |-> None]))
    \/ Interpret(1)
    \/ SaveAssistantMessage(1)

SpecRecent == Init /\ [][NextRecent]_vars

\* Free-text identifiers of an invoice: an amount, dates, names and parts of
\* names, a name that carries a number, and a text that matches nothing
ResolveTexts == {<<"7">>, <<"t", "1">>, <<"t", "2">>, <<"a">>, <<"C">>, <<"c", "7">>, <<"z">>}

\* An account's invoices of two clients and two amounts, created as time
\* passes and then updated by a free-text identifier or an id
NextResolve ==
    \/ Tick
    \/ DoCreateInvoice({"u1"}, [clientName : {Some(<<"a">>), Some(<<"c", "7">>)},
                                amount : {Some(1), Some(7)}])
    \/ \E params \in OnRecord("invoiceId", ResolveTexts, [status |-> Some("Overdue")]) :
           Dispatch("u1", "update_invoice", params, NoExt)

SpecResolve == Init /\ [][NextResolve]_vars

\* exports.getConversation: the account's conversation is read, and created
\* when there is none
GetConversation(userId) ==
    /\ conversations' = conversations \cup {ConversationOf(userId)}
    /\ UNCHANGED <<now, dbVars, xeroVars, lastCall, lastEnv, messages, req>>

\* exports.clearConversation: 404 when the account has no conversation, else
\* Message.deleteMany({ conversation }); the Conversation document stays
ClearConversation(userId) ==
    /\ ConversationOf(userId) \in conversations
    /\ messages' = SelectSeq(messages,
                       LAMBDA m : m.conversation /= ConversationOf(userId)._id)
    /\ UNCHANGED <<now, dbVars, xeroVars, lastCall, lastEnv, conversations, req>>

\* The first requests of one account, served concurrently, next to reads and
\* clears of its conversation
NextConversation ==
    \/ GetConversation("u1")
    \/ ClearConversation("u1")
    \/ \E r \in Requests :
           \/ Receive(r, "u1", TRUE)
           \/ FindConversation(r)
           \/ CreateConversation(r)
           \/ SaveUserMessage(r, <<"hi">>)
           \/ FetchContext(r)
           \/ CallLLM(r, PlainReply)
           \/ Interpret(r)
           \/ SaveAssistantMessage(r)

SpecConversation == Init /\ [][NextConversation]_vars

\* The text of an id that no stored record has
UnusedId == ObjId(MaxRecords + 1)

\* An account whose records may be named like an id, acting on records by
\* id and by name
NextIds ==
    \/ DoCreateTask({"u1"}, [title : {Some(<<"a">>), Some(UnusedId)}])
    \/ DoCreateEvent({"u1"}, [title : {Some(<<"a">>), Some(UnusedId)},
                              startTime : {Some(DateIso(1))}])
    \/ DoCreateInvoice({"u1"}, [clientName : {Some(<<"a">>), Some(UnusedId)},
                                amount : {Some(MaxRecords + 1)}])
    \/ \E action \in {"complete_task", "delete_event", "mark_invoice_paid"} :
           \E params \in ExistingRecordParams(action, {<<"a">>}) :
               Dispatch("u1", action, params, NoExt)

SpecIds == Init /\ [][NextIds]_vars

\* Two accounts while the accounting tenant gets connected: each creates
\* records and acts on records by id and by name
NextAccounts ==
    \/ XeroCallback
    \/ DoCreateTask(Users, {[title |-> Some(<<"a">>)]})
    \/ DoCreateEvent(Users, {[title |-> Some(<<"a">>), startTime |-> Some(DateIso(1))]})
    \/ DoCreateInvoice(Users, {[clientName |-> Some(<<"a">>), amount |-> Some(1)]})
    \/ \E u \in Users, action \in {"complete_task", "delete_event", "mark_invoice_paid"} :
           \E params \in ExistingRecordParams(action, {<<"a">>}) :
               Dispatch(u, action, params, NoExt)

SpecAccounts == Init /\ [][NextAccounts]_vars

-----------------------------------------------------------------------------
(* Claims *)

\* C1: after any sequence of dispatcher task mutations, every stored task has
\* completed = true if and only if its status is 'Completed' and its completedAt
\* is non-null.
C1_TaskLockstep ==
    \A t \in tasks :
        t.completed <=> (t.status = "Completed" /\ t.completedAt /= None)

\* C2: after any sequence of create_event and update_event actions, every
\* stored event with an end time has it strictly after its start time, and a
\* rejected create or update leaves the events as they were.
C2_EndAfterStart ==
    /\ \A e \in events :
          e.endTime /= None => Val(e.endTime) > Val(e.startTime)
    /\ \A u \in Users, action \in {"create_event", "update_event"},
          params \in CreateEventParams(Titles) \cup UpdateEventParams(Titles) :
          LET out == handleActionRequest(Db, now, Xero, u, action, params, NoExt)
          IN  ~out.env.success => out.db = Db

\* C3: every invoice whose due date has passed and that is not Paid is
\* surfaced as Overdue by every read (the invoice listing, the context
\* aggregator, the resolver), whichever operation wrote it last and also when
\* nothing wrote it since the due date passed.
C3_OverdueOnRead ==
    \A i \in invoices :
        (Val(i.dueDate) < now /\ i.status /= "Paid") =>
            /\ \A r \in getAllInvoices(Db, i.user, None) :
                   r._id = i._id => r.status = "Overdue"
            /\ \A r \in getUserContextData(Db, i.user).all :
                   r._id = i._id => r.status = "Overdue"
            /\ Val(findInvoice(Db, i.user, Some(i._id))).status = "Overdue"

\* C4: with an accounting connection active, a create_invoice, update_invoice
\* or mark_invoice_paid whose accounting-sync call throws keeps the local
\* change, answers success: true, and returns the invoice carrying a
\* xeroSyncError marker.
C4_SyncErrorMarked ==
    \A action \in {"create_invoice", "update_invoice", "mark_invoice_paid"},
       params \in CreateInvoiceParams({<<"a">>}, {}, Emails)
                    \cup UpdateInvoiceParams({<<"a">>}, {}, {"Overdue"}, Emails) :
        LET throwing == [xeroThrows |-> TRUE, emailThrows |-> FALSE]
            local == handleActionRequest(Db, now, [tenantId |-> None,
                         isAuthenticated |-> FALSE], "u1", action, params, NoExt)
            out == handleActionRequest(Db, now, Xero, "u1", action, params, throwing)
            target == findInvoice(Db, "u1", Param(params, "invoiceId"))
            attempted == /\ XeroConnected(Xero)
                         /\ local.env.success
                         /\ (action /= "create_invoice" =>
                                "xeroInvoiceId" \in DOMAIN Val(target))
        IN  attempted =>
                /\ out.env.success
                /\ out.db.invoices = local.db.invoices
                /\ "xeroSyncError" \in DOMAIN Val(out.env.data)

\* C7: when create_invoice, update_invoice or mark_invoice_paid is asked to
\* send an email and the delivery throws after the mutation succeeded, the
\* mutation stays and the envelope still reports success, with the email
\* failure attached as emailStatus.
C7_EmailSoftError ==
    \A action \in {"create_invoice", "update_invoice", "mark_invoice_paid"},
       params \in CreateInvoiceParams({<<"a">>}, {}, Emails)
                    \cup UpdateInvoiceParams({<<"a">>}, {}, {"Overdue"}, Emails) :
        LET delivered == handleActionRequest(Db, now, Xero, "u1", action, params, NoExt)
            out == handleActionRequest(Db, now, Xero, "u1", action, params,
                       [xeroThrows |-> FALSE, emailThrows |-> TRUE])
        IN  (EmailRequested(params) /\ delivered.env.success) =>
                /\ out.db.invoices = delivered.db.invoices
                /\ out.env.success
                /\ out.env.emailStatus /= None

\* C5: every turn that saved its user message and has ended has saved exactly
\* one assistant message after it in the same conversation and answered with
\* a reply (201), whatever failed on the way.
C5_TurnEndsWithAssistant ==
    \A r \in Requests :
        LET saved(sender) == {i \in 1..Len(messages) :
                                 messages[i].request = r /\ messages[i].sender = sender}
        IN  (req[r].pc = "done" /\ saved("user") /= {}) =>
                /\ Cardinality(saved("assistant")) = 1
                /\ \A i \in saved("user"), j \in saved("assistant") :
                       i < j /\ messages[i].conversation = messages[j].conversation
                /\ req[r].status = 201

\* C6: two turns of one conversation are never in progress at once, and the
\* conversation's messages, in creation order, alternate user, assistant.
C6_TurnsSerialised ==
    /\ \A r, q \in Requests :
          (r /= q /\ req[r].user = req[q].user) =>
              ~(req[r].pc \notin {"idle", "done"} /\ req[q].pc \notin {"idle", "done"})
    /\ \A c \in conversations :
          LET own == SelectSeq(messages, LAMBDA m : m.conversation = c._id)
          IN  \A i \in 1..Len(own) :
                  /\ (i % 2 = 1 /\ i < Len(own)) => own[i].sender = "user"
                                                     /\ own[i + 1].sender = "assistant"
                  /\ (i % 2 = 0) => own[i].sender = "assistant"

\* C8: for every action on an existing record, the envelope an account gets
\* is the one it would get if the other accounts' records did not exist; a
\* call naming another account's record by id gets the action's 'not found or
\* you don't have permission' failure and changes nothing; the other
\* accounts' records are never changed.
C8_CrossAccountNotFound ==
    \A u \in Users, action \in ExistingRecordActions :
        \A params \in ExistingRecordParams(action, Titles) :
            LET others(S) == {d \in S : d.user /= u}
                alone == [tasks |-> tasks \ others(tasks),
                          events |-> events \ others(events),
                          invoices |-> invoices \ others(invoices),
                          nextId |-> nextId]
                out == handleActionRequest(Db, now, Xero, u, action, params, NoExt)
                absent == handleActionRequest(alone, now, Xero, u, action, params, NoExt)
                target == Val(params[TargetField(action)])
                collection == CASE action \in TaskActions -> tasks
                                [] action \in EventActions -> events
                                [] OTHER -> invoices
                notFound == CASE action \in TaskActions -> TaskNotFound
                              [] action = "delete_event" -> EventNotFound("delete it")
                              [] action \in EventActions -> EventNotFound("update it")
                              [] action = "send_invoice" -> InvoiceNotFound("access it")
                              [] OTHER -> InvoiceNotFound("update it")
            IN  /\ out.env = absent.env
                /\ others(out.db.tasks) = others(tasks)
                /\ others(out.db.events) = others(events)
                /\ others(out.db.invoices) = others(invoices)
                /\ (\E d \in others(collection) : d._id = target) =>
                       (out.env = notFound /\ out.db = Db)

\* The first account has just named a record of the second by its id, got the
\* not-found failure, and the record is still there
C8_ForeignIdRefused ==
    /\ lastCall.user = "u1"
    /\ lastCall.action \in ExistingRecordActions
    /\ lastCall.target /= None
    /\ \E d \in IF lastCall.action \in TaskActions THEN tasks
                ELSE IF lastCall.action \in EventActions THEN events ELSE invoices :
           d._id = Val(lastCall.target) /\ d.user = "u2"
    /\ lastEnv /= None
    /\ ~Val(lastEnv).success
    /\ Val(lastEnv).error \in {TaskNotFound.error, EventNotFound("update it").error,
                               EventNotFound("delete it").error,
                               InvoiceNotFound("update it").error,
                               InvoiceNotFound("access it").error}

\* C9: a turn whose parsed reply carries needsClarification never invokes the
\* dispatcher and changes no record, and its reply text contains the literal
\* question, followed by the numbered options when options are present,
\* whether or not the model also supplied a response string.
C9_ClarificationReply ==
    \A r \in Requests :
        LET reply == Val(req[r].aiResponse)
            ask == Val(reply.needsClarification)
            out == generateAIResponse(Db, now, Xero, req[r].user,
                                      ContextOf(Db, req[r].user), reply)
        IN  (req[r].pc \in {"saveAssistant", "done"} /\ req[r].aiResponse /= None
                /\ reply.json /\ reply.needsClarification /= None) =>
                /\ ~req[r].dispatched
                /\ out.db = Db
                /\ Contains(req[r].finalResponse, ask.question)
                /\ ask.options /= None =>
                       \E i \in 1..Len(req[r].finalResponse) :
                           /\ req[r].finalResponse[i] = ask.question
                           /\ SubSeq(req[r].finalResponse, i + 1,
                                     Len(req[r].finalResponse))
                                = <<"Options:">> \o NumberedList(Val(ask.options), 1)

\* C10: a turn whose reply is not valid JSON calls the model once, never
\* invokes the dispatcher, replies with the one apology that contains the
\* parse error, and ends with both its user message and its assistant message
\* saved.
C10_InvalidJsonTurn ==
    \A r \in Requests :
        LET saved(sender) == {i \in 1..Len(messages) :
                                 messages[i].request = r /\ messages[i].sender = sender}
        IN  (req[r].aiResponse /= None /\ ~Val(req[r].aiResponse).json) =>
                /\ req[r].llmCalls = 1
                /\ ~req[r].dispatched
                /\ req[r].pc \in {"saveAssistant", "done"} =>
                       req[r].finalResponse = Apology(ParseError)
                /\ req[r].pc = "done" =>
                       /\ Cardinality(saved("user")) = 1
                       /\ Cardinality(saved("assistant")) = 1
                       /\ \A j \in saved("assistant") :
                              messages[j].text = Apology(ParseError)

\* C11 as stated: an invoice created with a client name, an amount and a due
\* date, then resolved by its id, has that client name, that amount and
\* status 'Pending'.
C11_RoundTripPending ==
    \A u \in Users, params \in CreateInvoiceParams(ClientNames, InvoiceDateInputs, {}) :
        LET out == handleActionRequest(Db, now, Xero, u, "create_invoice", params, NoExt)
            found == findInvoice(out.db, u, Some(Val(out.env.data)._id))
        IN  (params.clientName /= None /\ params.amount /= None
                /\ params.dueDate /= None /\ out.env.success) =>
                /\ found /= None
                /\ Val(found).clientName = Val(params.clientName)
                /\ Val(found).amount = Val(params.amount)
                /\ Val(found).status = "Pending"

\* C11: an invoice created with a client name, an amount and a due date, then
\* resolved by its id, is the record the call returned: it has the client
\* name with surrounding whitespace trimmed, the same amount and the due date
\* given, with status 'Pending' when the due date is not before the time of
\* creation and 'Overdue' when it is.
C11_RoundTrip ==
    \A u \in Users, params \in CreateInvoiceParams(ClientNames, InvoiceDateInputs, {}) :
        LET out == handleActionRequest(Db, now, Xero, u, "create_invoice", params, NoExt)
            found == findInvoice(out.db, u, Some(Val(out.env.data)._id))
        IN  (params.clientName /= None /\ params.amount /= None
                /\ params.dueDate /= None /\ out.env.success) =>
                /\ found = out.env.data
                /\ Val(found).clientName = Trim(Val(params.clientName))
                /\ Val(found).amount = Val(params.amount)
                /\ Val(found).dueDate = NewDate(Val(params.dueDate))
                /\ Val(found).status = IF Val(Val(found).dueDate) < now
                                       THEN "Overdue" ELSE "Pending"

\* An invoice has just been created with a due date already past, and
\* resolving it by its id gives the record returned, stored as Overdue
C11_CreatedPastDue ==
    /\ lastCall.action = "create_invoice"
    /\ lastEnv /= None
    /\ Val(lastEnv).success
    /\ LET created == Val(Val(lastEnv).data)
       IN  /\ findInvoice(Db, lastCall.user, Some(created._id)) = Some(created)
           /\ Val(created.dueDate) < now
           /\ created.status = "Overdue"

\* C12: mark_invoice_paid, and its alias pay_invoice, on an invoice that
\* resolves leaves that invoice with status 'Paid', paidDate the time of the
\* call and every other field, dueDate among them, as before the call,
\* whatever its status was and whether or not the confirmation email is
\* delivered; no other invoice changes.
C12_MarkPaidStampsAndKeepsDueDate ==
    \A u \in Users, action \in {"mark_invoice_paid", "pay_invoice"},
       params \in TargetInvoiceParams(Titles, Emails), emailThrows \in BOOLEAN :
        LET target == findInvoice(Db, u, params.invoiceId)
            before == Val(target)
            out == handleActionRequest(Db, now, Xero, u, action, params,
                       [xeroThrows |-> FALSE, emailThrows |-> emailThrows])
            after == {i \in out.db.invoices : i._id = before._id}
        IN  target /= None =>
                /\ out.db.invoices \ after = invoices \ {before}
                /\ after = {[before EXCEPT !.status = "Paid", !.paidDate = Some(now)]}
                /\ \A i \in after : i.dueDate = before.dueDate
                /\ (~EmailRequested(params) \/ ~emailThrows) =>
                       (out.env.success /\ Val(out.env.data) \in after)

\* An invoice whose due date had passed has just been marked paid: it is
\* stored as Paid, stamped with the time of the call, its due date still past
C12_PastDueMarkedPaid ==
    /\ lastCall.action \in {"mark_invoice_paid", "pay_invoice"}
    /\ lastEnv /= None
    /\ Val(lastEnv).success
    /\ Val(Val(lastEnv).data) \in invoices
    /\ Val(Val(lastEnv).data).status = "Paid"
    /\ Val(Val(lastEnv).data).paidDate = Some(now)
    /\ Val(Val(Val(lastEnv).data).dueDate) < now

\* C13: in every reachable state an invoice has a paidDate if and only if its
\* status is 'Paid', whichever of create_invoice, update_invoice,
\* mark_invoice_paid and the REST update and mark-paid routes wrote it.
C13_PaidDateIffPaid ==
    \A i \in invoices : (i.paidDate /= None) <=> (i.status = "Paid")

\* C14: for every action that has required parameters in its handler's table,
\* a call in which some of them are missing (undefined, null or empty) returns
\* success: false with missingFields exactly the missing names, and creates,
\* modifies or deletes no record.
C14_MissingFieldsExact ==
    \A u \in Users, action \in TaskActions \cup EventActions \cup InvoiceActions :
        \A params \in RequiredParams(action) :
            LET missing == {f \in RequiredFields(action) :
                               \/ params[f] = None
                               \/ f /= "amount" /\ params[f] \in {JsNull, Some(<<>>)}}
                out == handleActionRequest(Db, now, Xero, u, action, params, NoExt)
            IN  missing /= {} =>
                    /\ ~out.env.success
                    /\ out.env.missingFields = missing
                    /\ out.db = Db

\* C15: create_task with a due date earlier than now is refused with the error
\* 'Due date cannot be in the past' and creates no task unless allowPastDue is
\* set; with allowPastDue set the same call creates one task carrying that
\* past due date.
C15_PastDueNeedsOverride ==
    \A u \in Users, params \in DueTaskParams(Titles) :
        LET given == Val(params.dueDate)
            past == /\ params.dueDate /= None
                    /\ \/ given[1] = "iso" /\ given[2] < now
                       \/ given = DateWord("yesterday")
            due == IF given[1] = "iso" THEN given[2] ELSE now - 24
            out == handleActionRequest(Db, now, Xero, u, "create_task", params, NoExt)
        IN  past =>
                IF params.allowPastDue = Some(TRUE)
                THEN /\ out.env.success
                     /\ Val(out.env.data) \notin tasks
                     /\ out.db.tasks = tasks \cup {Val(out.env.data)}
                     /\ Val(out.env.data).dueDate = Some(due)
                     /\ Val(out.env.data).user = u
                ELSE /\ out.env = ErrorEnvelope("Due date cannot be in the past")
                     /\ out.db = Db

\* A task has just been created with a due date already past
C15_PastDueCreated ==
    /\ lastCall.action = "create_task"
    /\ lastEnv /= None
    /\ Val(lastEnv).success
    /\ Val(Val(lastEnv).data) \in tasks
    /\ Val(Val(lastEnv).data).dueDate /= None
    /\ Val(Val(Val(lastEnv).data).dueDate) < now

\* Conversation histories of up to two user messages
Histories ==
    {<<>>} \cup {<<t>> : t \in UserTexts} \cup {<<s, t>> : s, t \in UserTexts}

\* send_invoice params that carry no email: the invoice named or not
SendParamsNoEmail == {[invoiceId |-> None], [invoiceId |-> Some(ObjId(1))]}

\* The indices of the history's messages that carry an address
WithAddress(history) ==
    {i \in 1..Len(history) : \E k \in 1..Len(history[i]) : history[i][k] \in EmailPieces}

\* C16: for send_invoice without an email parameter the recipient is the
\* account's own email when it has one; otherwise the address in the most
\* recent message of the history that carries one; when there is neither, the
\* reply is the error, the dispatcher is not invoked and no invoice changes
C16_RecipientOrder ==
    \A u \in Users, h \in Histories, p \in SendParamsNoEmail :
        LET context == [ContextOf(Db, u) EXCEPT !.history = h]
            out == generateAIResponse(Db, now, Xero, u, context,
                                      ActionReplyOf("send_invoice", p))
            hits == WithAddress(h)
            last == CHOOSE i \in hits : \A k \in hits : k <= i
        IN  IF UserEmail(u) /= None
            THEN /\ p.invoiceId /= None => out.dispatched
                 /\ out.dispatched => Val(out.params).email = UserEmail(u)
            ELSE IF hits = {}
            THEN /\ ~out.dispatched
                 /\ out.db = Db
                 /\ out.finalResponse = Apology("Email address is required to send invoice. Please provide recipient email address.")
            ELSE /\ p.invoiceId /= None => out.dispatched
                 /\ out.dispatched =>
                        \E k \in 1..Len(h[last]) :
                            /\ h[last][k] \in EmailPieces
                            /\ Val(out.params).email = Some(<<h[last][k]>>)

\* A turn of the account without an email dispatched send_invoice after two
\* messages of the conversation had named different addresses
C16_SentToLatestAddress ==
    \E r \in Requests :
        /\ req[r].pc = "done"
        /\ req[r].dispatched
        /\ Val(req[r].aiResponse).action = Some("send_invoice")
        /\ UserEmail(req[r].user) = None
        /\ LET h == Val(req[r].context).history
           IN  /\ \E i, k \in WithAddress(h) : EmailMatch(h[i]) /= EmailMatch(h[k])
               /\ SendInvoiceParams(Val(req[r].aiResponse).params,
                                    Val(req[r].context)).params /= None

\* C17: send_invoice with neither invoiceId nor clientName is dispatched for
\* the account's invoice with the latest issue date among all its invoices;
\* when the account has no invoice the reply is the error and the dispatcher
\* is not invoked
C17_TargetsMostRecentlyIssued ==
    \A u \in Users :
        LET all == {i \in invoices : i.user = u}
            out == generateAIResponse(Db, now, Xero, u, ContextOf(Db, u),
                       ActionReplyOf("send_invoice", [email |-> Some(<<"x@mail.com">>)]))
        IN  IF all = {}
            THEN /\ ~out.dispatched
                 /\ out.finalResponse = Apology("No invoices found to send.")
            ELSE /\ out.dispatched
                 /\ \E i \in all :
                        /\ Val(out.params).invoiceId = Some(i._id)
                        /\ \A k \in all : Val(k.date) <= Val(i.date)

\* The parameter that names a record by its title or client
NameField(action) == IF Includes(action, "invoice") THEN "clientName" ELSE "title"

\* Every action name a reply may carry
ReplyActions == TaskActions \cup EventActions \cup InvoiceActions \cup UnknownActions

\* The params of a reply: the name and the id of the record, each given,
\* absent, null or empty
NamingParams(action) ==
    {[f \in {NameField(action), TargetField(action)} |->
         IF f = TargetField(action) THEN id ELSE name] :
        name \in {None, JsNull, Some(<<>>), Some(<<"a">>)},
        id \in {None, JsNull, Some(<<>>), Some(ObjId(1))}}

\* The interpreter's outcome for a reply that asks for the action
Turn(u, h, action, params) ==
    generateAIResponse(Db, now, Xero, u, [ContextOf(Db, u) EXCEPT !.history = h],
                       ActionReplyOf(action, params))

\* The reply is the apology for a thrown error
IsApology(finalResponse) ==
    Len(finalResponse) = 3 /\ finalResponse = Apology(finalResponse[3])

\* C18 as stated: a reply whose action does not contain 'fetch' and names
\* neither a title/client nor an id ends in an error with the dispatcher not
\* invoked and no record touched; a fetch action is dispatched
C18_NamelessNeverDispatched ==
    \A u \in Users, h \in {<<>>, <<<<"mail ", "x@mail.com">>>>},
       action \in ReplyActions :
        \A params \in NamingParams(action) :
            LET out == Turn(u, h, action, params)
            IN  IF Includes(action, "fetch") THEN out.dispatched
                ELSE ~Given(params, NameField(action)) /\ ~Given(params, TargetField(action))
                     => ~out.dispatched /\ out.db = Db /\ IsApology(out.finalResponse)

\* C18: the same, except that send_invoice with neither name nor id is
\* dispatched with the first invoice of the context when a recipient is
\* resolved and the account has an invoice (and ends in an error otherwise)
C18_NamelessDispatchedOnlyForSend ==
    \A u \in Users, h \in {<<>>, <<<<"mail ", "x@mail.com">>>>},
       action \in ReplyActions :
        \A params \in NamingParams(action) :
            LET out == Turn(u, h, action, params)
                nameless == /\ ~Given(params, NameField(action))
                            /\ ~Given(params, TargetField(action))
                refused == ~out.dispatched /\ out.db = Db /\ IsApology(out.finalResponse)
                all == {i \in invoices : i.user = u}
            IN  IF Includes(action, "fetch") THEN out.dispatched
                ELSE IF ~nameless THEN TRUE
                ELSE IF action /= "send_invoice" THEN refused
                ELSE IF all = {} \/ (UserEmail(u) = None /\ WithAddress(h) = {})
                THEN refused
                ELSE /\ out.dispatched
                     /\ \E i \in all : Val(out.params).invoiceId = Some(i._id)

\* One turn asked to complete a task it did not name and ended in the
\* apology without a dispatch, and another turn's fetch was dispatched
C18_NamelessTaskRefused ==
    \E r, q \in Requests :
        /\ req[r].pc = "done"
        /\ Val(req[r].aiResponse).action = Some("complete_task")
        /\ ~req[r].dispatched
        /\ req[r].finalResponse = Apology("Task actions require either title or taskId")
        /\ req[q].pc = "done"
        /\ Val(req[q].aiResponse).action = Some("fetch_invoices")
        /\ req[q].dispatched

\* The params of a fetch: no filter, with and without a page
PagedFetchParams == [limit : Opt({1}), skip : Opt({1})]

\* The records of the account in the domain a fetch action reads
RecordsOf(u, action) ==
    CASE action = "fetch_tasks" -> {t \in tasks : t.user = u}
      [] action = "fetch_events" -> {e \in events : e.user = u}
      [] OTHER -> {i \in invoices : i.user = u}

\* C19: each of fetch_tasks, fetch_events and fetch_invoices returns
\* { success: true, data, meta } where data holds records of the account that
\* match, meta.returned is the length of data and at most meta.limit, and
\* meta.total is the number of matching records; no record is created,
\* modified or deleted
C19_FetchEnvelope ==
    \A u \in Users, action \in FetchActions, params \in PagedFetchParams :
        LET out == handleActionRequest(Db, now, Xero, u, action, params, NoExt)
            env == out.env
        IN  /\ out.db = Db
            /\ env.success
            /\ env.data /= None
            /\ env.meta /= None
            /\ \A i \in 1..Len(Val(env.data)) : Val(env.data)[i] \in RecordsOf(u, action)
            /\ Val(env.meta).returned = Len(Val(env.data))
            /\ Val(env.meta).returned <= Val(env.meta).limit
            /\ Val(env.meta).total = Cardinality(RecordsOf(u, action))

\* C20: resolving a task, an event or an invoice by the id of a stored record
\* of the calling account returns exactly that record, whatever other records
\* with the same title, amount or client are stored
C20_ResolvedByOwnId ==
    /\ \A t \in tasks : findTask(Db, t.user, Some(t._id)) = Some(t)
    /\ \A e \in events : findEvent(Db, e.user, Some(e._id)) = Some(e)
    /\ \A i \in invoices : findInvoice(Db, i.user, Some(i._id)) = Some(i)

\* An account has two invoices of the same client and amount, and its last
\* call updated the older one by its id
C20_OlderOfTwoUpdatedById ==
    \E i, k \in invoices :
        /\ i.user = k.user /\ i.clientName = k.clientName /\ i.amount = k.amount
        /\ i.createdAt < k.createdAt
        /\ lastCall.action = "update_invoice"
        /\ lastCall.user = i.user
        /\ lastCall.target = Some(i._id)
        /\ lastEnv /= None /\ Val(lastEnv).success
        /\ Val(Val(lastEnv).data)._id = i._id
        /\ i.status = "Overdue" /\ k.status = "Pending"

\* The amount written in a free-text identifier, if any
AmountWritten(id) ==
    CASE id \in {<<"7">>, <<"c", "7">>} -> Some(7)
      [] id = <<"t", "1">> -> Some(1)
      [] id = <<"t", "2">> -> Some(2)
      [] OTHER -> None

\* The date written in a free-text identifier, if any
DateWritten(id) ==
    CASE id = <<"t", "1">> -> Some(1)
      [] id = <<"t", "2">> -> Some(2)
      [] OTHER -> None

\* C21: for an identifier that is not a well-formed id, findInvoice returns
\* the most recently created invoice of the first non-empty stage among the
\* amount match, the issue-date or due-date match and the case-insensitive
\* partial client-name match, and none when all three are empty
C21_StagesInOrder ==
    \A u \in Users, id \in ResolveTexts :
        LET own == {i \in invoices : i.user = u}
            byAmount == {i \in own : Some(i.amount) = AmountWritten(id)}
            byDate == {i \in own : DateWritten(id) /= None
                                   /\ (i.date = DateWritten(id) \/ i.dueDate = DateWritten(id))}
            byName == {i \in own : MatchesPartially(i.clientName, id)}
            stage == IF byAmount /= {} THEN byAmount
                     ELSE IF byDate /= {} THEN byDate ELSE byName
            found == findInvoice(Db, u, Some(id))
        IN  IF stage = {} THEN found = None
            ELSE /\ found /= None
                 /\ Val(found) \in stage
                 /\ \A k \in stage : k.createdAt <= Val(found).createdAt

\* The last call named "c7": the invoice of amount 7 was updated, though the
\* invoice of client c7 is the more recent one
C21_AmountBeforeName ==
    \E i, k \in invoices :
        /\ i.user = "u1" /\ k.user = "u1"
        /\ i.amount = 7 /\ i.clientName = <<"a">>
        /\ k.amount = 1 /\ k.clientName = <<"c", "7">>
        /\ i.createdAt < k.createdAt
        /\ lastCall.action = "update_invoice"
        /\ lastCall.target = Some(<<"c", "7">>)
        /\ lastEnv /= None /\ Val(lastEnv).success
        /\ Val(Val(lastEnv).data)._id = i._id

\* C22: when a title that is not an id matches several tasks of the account
\* (case-insensitive, exact) or several events of the account
\* (case-insensitive, partial), the resolver returns the most recently
\* created of the matching records
C22_MostRecentMatch ==
    \A u \in Users, id \in Titles :
        LET matchingTasks == {t \in tasks : t.user = u /\ MatchesExactly(t.title, id)}
            matchingEvents == {e \in events : e.user = u /\ MatchesPartially(e.title, id)}
        IN  /\ matchingTasks /= {} =>
                   findTask(Db, u, Some(id)) = Some(MostRecent(matchingTasks))
            /\ matchingEvents /= {} =>
                   findEvent(Db, u, Some(id)) = Some(MostRecent(matchingEvents))

\* Start times that cannot be parsed as a date: a text without a date, and
\* 'pm' without an hour
UnparseableTimes == {DateJunk, DatePm(-1)}

\* C23: create_event or update_event with a startTime that cannot be parsed
\* as a date ends in an error envelope and creates or changes no event
C23_UnparseableStartRejected ==
    \A u \in Users, startTime \in UnparseableTimes :
        /\ LET out == handleActionRequest(Db, now, Xero, u, "create_event",
                          [title |-> Some(<<"a">>), startTime |-> Some(startTime)], NoExt)
           IN  ~out.env.success /\ out.db = Db
        /\ \A e \in events :
               LET out == handleActionRequest(Db, now, Xero, e.user, "update_event",
                              [eventId |-> Some(e._id), startTime |-> Some(startTime)], NoExt)
               IN  ~out.env.success /\ out.db = Db

\* The collections with only the records of one account
OwnDb(db, u) ==
    [db EXCEPT !.tasks = {t \in @ : t.user = u},
               !.events = {e \in @ : e.user = u},
               !.invoices = {i \in @ : i.user = u}]

\* The records of the other accounts
OthersDb(db, u) ==
    [tasks |-> {t \in db.tasks : t.user /= u},
     events |-> {e \in db.events : e.user /= u},
     invoices |-> {i \in db.invoices : i.user /= u}]

\* The calls an account makes: creations, and actions on a record
AccountCalls ==
    {[action |-> "create_task", params |-> [title |-> Some(<<"a">>)]],
     [action |-> "create_event",
      params |-> [title |-> Some(<<"a">>), startTime |-> Some(DateIso(1))]],
     [action |-> "create_invoice",
      params |-> [clientName |-> Some(<<"a">>), amount |-> Some(1)]]}
    \cup UNION {{[action |-> action, params |-> params] :
                    params \in ExistingRecordParams(action, {<<"a">>})} :
                action \in ExistingRecordActions}

\* C24: a call of account u leaves the records of every other account as
\* they are, and what it does to u's records and what it answers is what it
\* does and answers when only u's records are stored; the context of a turn
\* is that of u's records alone
C24_AccountsDoNotInterfere ==
    \A u \in Users, call \in AccountCalls :
        \A ext \in Exts(call.params) :
            LET out == handleActionRequest(Db, now, Xero, u, call.action, call.params, ext)
                alone == handleActionRequest(OwnDb(Db, u), now, Xero, u,
                                             call.action, call.params, ext)
            IN  /\ OthersDb(out.db, u) = OthersDb(Db, u)
                /\ OwnDb(out.db, u) = alone.db
                /\ out.env = alone.env
                /\ ContextOf(Db, u) = ContextOf(OwnDb(Db, u), u)

\* Both accounts have a task titled 'a', the first account's is the older
\* one, and the second account's last call completed its own task by title
C24_OwnTaskCompletedByTitle ==
    \E t, k \in tasks :
        /\ t.user = "u1" /\ k.user = "u2"
        /\ t.title = k.title
        /\ t.createdAt < k.createdAt
        /\ lastCall.user = "u2"
        /\ lastCall.action = "complete_task"
        /\ lastCall.target = Some(<<"a">>)
        /\ k.completed /\ ~t.completed

\* C25: there is at most one Conversation per account, and no request ends
\* at the creation of the conversation: two first requests of an account that
\* interleave their find and create steps both go on with their turn
C25_OneConversationBothTurns ==
    /\ \A u \in Users : Cardinality({c \in conversations : c.user = u}) <= 1
    /\ \A r \in Requests :
           ~(req[r].pc = "done" /\ req[r].status = 500 /\ req[r].conversation = None)

\* The request has got as far as the completion call of generateAIResponse
CalledModel(r) ==
    \/ req[r].pc \in {"interpret", "saveAssistant"}
    \/ req[r].aiResponse /= None
    \/ (req[r].pc = "done" /\ req[r].status = 500
           /\ req[r].context /= None /\ req[r].aiResponse = None)

ById(records, u, id) ==
    LET found == {d \in records : d._id = id /\ d.user = u}
    IN  IF found = {} THEN None ELSE Some(CHOOSE d \in found : TRUE)

\* C27: for an identifier that is a well-formed id each resolver returns the
\* account's record with that id and none when there is no such record,
\* whatever titles, amounts or client names the identifier's text matches; for
\* a text that is not an id it returns a record exactly when a heuristic
\* matches
C27_IdsResolvedByIdOnly ==
    \A u \in Users, id \in ObjectIds \cup {<<"a">>} :
        IF IsValidObjectId(id)
        THEN /\ findTask(Db, u, Some(id)) = ById(tasks, u, id)
             /\ findEvent(Db, u, Some(id)) = ById(events, u, id)
             /\ findInvoice(Db, u, Some(id)) = ById(invoices, u, id)
        ELSE /\ findTask(Db, u, Some(id)) /= None
                    <=> \E t \in tasks : t.user = u /\ MatchesExactly(t.title, id)
             /\ findEvent(Db, u, Some(id)) /= None
                    <=> \E e \in events : e.user = u /\ MatchesPartially(e.title, id)
             /\ findInvoice(Db, u, Some(id)) /= None
                    <=> \E i \in invoices : i.user = u /\ MatchesPartially(i.clientName, id)

\* The last call asked to delete the event of an id that no event has, and
\* was refused, while the account has an event whose title is that text
C27_TitleLikeIdNotMatched ==
    /\ \E e \in events : e.user = "u1" /\ e.title = UnusedId
    /\ lastCall.action = "delete_event"
    /\ lastCall.user = "u1"
    /\ lastCall.target = Some(UnusedId)
    /\ lastEnv /= None /\ ~Val(lastEnv).success

\* C28: after a successful cancel_event the event that was resolved is still
\* stored and its cancelled flag reads true
C28_CancelledFlagReadsTrue ==
    (/\ lastCall.action = "cancel_event"
     /\ lastEnv /= None
     /\ Val(lastEnv).success)
        => \E e \in events :
               /\ e._id = Val(Val(lastEnv).data)._id
               /\ "cancelled" \in DOMAIN e
               /\ e.cancelled = TRUE

\* C29: after a successful send_invoice the stored invoice carries lastSent
\* and sentTo
C29_SendRecordedOnInvoice ==
    (/\ NormalizedActionType(lastCall.action) = "send_invoice"
     /\ lastEnv /= None
     /\ Val(lastEnv).success)
        => \E i \in invoices :
               /\ i._id = Val(Val(lastEnv).data)._id
               /\ "lastSent" \in DOMAIN i
               /\ "sentTo" \in DOMAIN i

\* C30: whenever the current tenant id is not null the authenticated sync
\* client is available
C30_TenantImpliesClient ==
    getTenantId(Xero) /= None => getXeroClient(Xero) /= None

====
